---- MODULE Spec2Model ----
(***************************************************************************)
(* epdoptimize (python): the dithering engine (dither.py), the palette     *)
(* matcher (find_closest_color.py), the Bayer matrix builder               *)
(* (bayer_matrix.py), the diffusion kernel catalog (diffusion_maps.py),    *)
(* the hex parsers (color_helpers.py, replace_colors.py) and the colour    *)
(* replacement pass (replace_colors.py).                                   *)
(*                                                                         *)
(* Numbers.  The pixel buffer is a float64 array.  Every value the code    *)
(* does arithmetic on is carried here in fixed point, in units of 1/Scale: *)
(* the integer colour c is c * Scale.  Scale = 32^(MaxPixels-1) makes the  *)
(* error-diffusion arithmetic of the kernels with power-of-two weights     *)
(* (all but jarvis and stucki) exact on every image of at most MaxPixels   *)
(* pixels, as it is in float64.  Weights k/48 and k/42 and ordered-dither  *)
(* factors k/N with N not a power of two are not representable in binary   *)
(* floating point either; here their products are rounded down to a        *)
(* multiple of 1/Scale.                                                    *)
(*                                                                         *)
(* Strings the code looks inside (hex colours) are sequences of            *)
(* one-character strings; strings it only compares (option values,         *)
(* palette and kernel names) are TLA+ strings.                             *)
(***************************************************************************)
EXTENDS Integers, Sequences, FiniteSets, TLC

\* ------------------------------------------------------------------ bounds
\* Images have at most MaxPixels pixels (every width x height shape within).
MaxPixels == 4
\* Random dithering is explored on images of at most MaxRandomPixels pixels.
MaxRandomPixels == 2

\* Fixed-point unit (see above).
Scale == 32 ^ (MaxPixels - 1)

\* Python's None where a string is expected (an option value).
PyNone == "<None>"

Min(a, b) == IF a < b THEN a ELSE b
Max(a, b) == IF a > b THEN a ELSE b
Abs(a) == IF a < 0 THEN -a ELSE a
Range(s) == {s[i] : i \in DOMAIN s}

\* --------------------------------------------------------- color_helpers.py
HexChars == {"0","1","2","3","4","5","6","7","8","9",
             "a","b","c","d","e","f","A","B","C","D","E","F"}

\* int(c, 16) of one character matched by [a-f\d] under re.IGNORECASE
HexDigit(c) ==
    CASE c = "0" -> 0 [] c = "1" -> 1 [] c = "2" -> 2 [] c = "3" -> 3
      [] c = "4" -> 4 [] c = "5" -> 5 [] c = "6" -> 6 [] c = "7" -> 7
      [] c = "8" -> 8 [] c = "9" -> 9
      [] c \in {"a", "A"} -> 10 [] c \in {"b", "B"} -> 11
      [] c \in {"c", "C"} -> 12 [] c \in {"d", "D"} -> 13
      [] c \in {"e", "E"} -> 14 [] c \in {"f", "F"} -> 15

\* the text after the optional leading '#' of the patterns ^#?...$
AfterHash(s) == IF Len(s) > 0 /\ s[1] = "#" THEN Tail(s) ELSE s

\* ^#?([a-f\d])([a-f\d])([a-f\d])$
IsShorthand(s) ==
    LET t == AfterHash(s) IN Len(t) = 3 /\ \A i \in 1..3 : t[i] \in HexChars

\* ^#?([a-f\d]{2})([a-f\d]{2})([a-f\d]{2})$
IsFullHex(s) ==
    LET t == AfterHash(s) IN Len(t) = 6 /\ \A i \in 1..6 : t[i] \in HexChars

\* hex_to_rgb of color_helpers.py: [R, G, B], or None (here <<>>) when the
\* text is no hex colour.
hex_to_rgb(hex_color) ==
    LET t == AfterHash(hex_color)
        full == IF IsShorthand(hex_color)
                THEN <<t[1], t[1], t[2], t[2], t[3], t[3]>>
                ELSE hex_color
        u == AfterHash(full)
    IN IF IsFullHex(full)
       THEN << 16 * HexDigit(u[1]) + HexDigit(u[2]),
               16 * HexDigit(u[3]) + HexDigit(u[4]),
               16 * HexDigit(u[5]) + HexDigit(u[6]) >>
       ELSE << >>

\* ------------------------------------------------ data/default_palettes.json
\* The registry dither.py loads at import (the file is not among the sources;
\* its names, the default palette and the palette lengths are those the tests
\* and the specification give).
PALETTES ==
    [ default  |-> << <<"#","0","0","0">>, <<"#","f","f","f">> >>,
      gameboy  |-> << <<"#","0","f","3","8","0","f">>, <<"#","3","0","6","2","3","0">>,
                      <<"#","8","b","a","c","0","f">>, <<"#","9","b","b","c","0","f">> >>,
      spectra6 |-> << <<"#","0","0","0">>, <<"#","f","f","f">>,
                      <<"#","f","f","0">>, <<"#","f","0","0">>,
                      <<"#","0","0","f">>, <<"#","0","f","0">> >>,
      acep     |-> << <<"#","0","0","0">>, <<"#","f","f","f">>,
                      <<"#","0","f","0">>, <<"#","0","0","f">>,
                      <<"#","f","0","0">>, <<"#","f","f","0">>,
                      <<"#","f","8","0">> >> ]

\* ------------------------------------------------------ find_closest_color.py
\* Wide arithmetic: a sum of three squares of fixed-point differences does not
\* fit TLC's 32-bit integers, so it is carried as six base-1024 digits, most
\* significant first.  math.sqrt is strictly increasing and, on the values of
\* this model, injective, so comparing the sums compares the distances.
Limb == 2 ^ 10

Digits(n) == << n % Limb, (n \div Limb) % Limb, n \div (Limb * Limb) >>

\* the digit products of n*n, least significant first, before carrying
SquareCoeffs(n) ==
    LET a == Digits(Abs(n))
    IN << a[1] * a[1], 2 * a[1] * a[2], 2 * a[1] * a[3] + a[2] * a[2],
          2 * a[2] * a[3], a[3] * a[3] >>

Carry(c) ==
    LET k1 == c[1] \div Limb
        k2 == (c[2] + k1) \div Limb
        k3 == (c[3] + k2) \div Limb
        k4 == (c[4] + k3) \div Limb
        k5 == (c[5] + k4) \div Limb
    IN << k5, (c[5] + k4) % Limb, (c[4] + k3) % Limb, (c[3] + k2) % Limb,
          (c[2] + k1) % Limb, c[1] % Limb >>

\* distance_in_color_space(color1, color2): r*r + g*g + b*b over the first
\* three channels (the value math.sqrt is applied to).
distance_in_color_space(color1, color2) ==
    LET r == SquareCoeffs(color1[1] - color2[1])
        g == SquareCoeffs(color1[2] - color2[2])
        b == SquareCoeffs(color1[3] - color2[3])
    IN Carry([k \in 1..5 |-> r[k] + g[k] + b[k]])

\* Mutant of DistLess: "<=" for "<", so the last of several nearest entries
\* replaces the first.
DistLessOrEqual(d1, d2) ==
    ~(\E k \in 1..6 : d2[k] < d1[k] /\ \A j \in 1..(k - 1) : d1[j] = d2[j])

\* Mutant of DistLess: ">" for "<", so the farthest entry is kept.
DistGreater(d1, d2) ==
    \E k \in 1..6 : d1[k] > d2[k] /\ \A j \in 1..(k - 1) : d1[j] = d2[j]

\* d1 < d2 on distances
DistLess(d1, d2) ==
    \E k \in 1..6 : d1[k] < d2[k] /\ \A j \in 1..(k - 1) : d1[j] = d2[j]

\* the scan "for color_entry in colors_with_distance": the index kept after
\* looking at entries 1..n (closest_color is None before the first).
RECURSIVE ClosestIndex(_, _, _)
ClosestIndex(pixel, color_palette, n) ==
    IF n = 1 THEN 1
    ELSE LET best == ClosestIndex(pixel, color_palette, n - 1)
         IN IF DistLess(distance_in_color_space(color_palette[n], pixel),
                        distance_in_color_space(color_palette[best], pixel))
            THEN n ELSE best

\* Mutant of find_closest_palette_color: the alpha of the pixel is kept where
\* the entry has none.
find_closest_keep_alpha(pixel, color_palette) ==
    LET result == color_palette[ClosestIndex(pixel, color_palette, Len(color_palette))]
    IN IF Len(result) < 4
       THEN Append(result, IF Len(pixel) > 3 THEN pixel[4] ELSE 255 * Scale)
       ELSE result

\* find_closest_palette_color(pixel, color_palette), color_palette non-empty
\* Mutant of find_closest_palette_color: alpha 255 whatever the entry has.
find_closest_opaque(pixel, color_palette) ==
    LET result == color_palette[ClosestIndex(pixel, color_palette, Len(color_palette))]
    IN Append(SubSeq(result, 1, 3), 255 * Scale)

find_closest_palette_color(pixel, color_palette) ==
    LET result == color_palette[ClosestIndex(pixel, color_palette, Len(color_palette))]
    IN IF Len(result) < 4 THEN Append(result, 255 * Scale) ELSE result

\* ----------------------------------------------------------- bayer_matrix.py
big_matrix ==
    << << 0, 48, 12, 60,  3, 51, 15, 63>>,
       <<32, 16, 44, 28, 35, 19, 47, 31>>,
       << 8, 56,  4, 52, 11, 59,  7, 55>>,
       <<40, 24, 36, 20, 43, 27, 39, 32>>,
       << 2, 50, 14, 62,  1, 49, 13, 61>>,
       <<34, 18, 46, 30, 33, 17, 45, 29>>,
       <<10, 58,  6, 54,  9, 57,  5, 53>>,
       <<42, 26, 38, 22, 41, 25, 37, 21>> >>

\* Mutant of sorted: descending.
sorted_descending(flat_values) ==
    LET n == Len(flat_values)
        place == SubSeq([k \in 1..n |->
                     Cardinality({j \in 1..n : flat_values[j] > flat_values[k]})
                     + Cardinality({j \in 1..k : flat_values[j] = flat_values[k]})],
                        1, n)
    IN SubSeq([p \in 1..n |-> flat_values[CHOOSE k \in 1..n : place[k] = p]], 1, n)

\* sorted(flat_values): ascending; entry k of the input goes to the place
\* after the smaller entries and the equal entries before it.
sorted(flat_values) ==
    LET n == Len(flat_values)
        place == SubSeq([k \in 1..n |->
                     Cardinality({j \in 1..n : flat_values[j] < flat_values[k]})
                     + Cardinality({j \in 1..k : flat_values[j] = flat_values[k]})],
                        1, n)
    IN SubSeq([p \in 1..n |-> flat_values[CHOOSE k \in 1..n : place[k] = p]], 1, n)

\* {v: i for i, v in enumerate(sorted_values)}: the entry written last (the
\* larger i) is the one a repeated v keeps.
index_map(sorted_values) ==
    [v \in Range(sorted_values) |->
        CHOOSE i \in 0..(Len(sorted_values) - 1) :
            /\ sorted_values[i + 1] = v
            /\ \A j \in (i + 1)..(Len(sorted_values) - 1) : sorted_values[j + 1] # v]

\* Mutant of create_bayer_matrix: the 8x8 matrix is sampled like the smaller
\* ones, rows and columns exchanged.
create_bayer_matrix_sampled(size) ==
    LET width == IF size[1] < 8 THEN Min(size[1], 8) ELSE 8
        height == IF size[2] < 8 THEN Min(size[2], 8) ELSE 8
        matrix == [y \in 1..height |-> [x \in 1..width |-> big_matrix[x][y]]]
        flat_values == SubSeq([k \in 1..(width * height) |->
                          matrix[((k - 1) \div width) + 1][((k - 1) % width) + 1]],
                              1, width * height)
        im == index_map(sorted(flat_values))
    IN IF width = 8 /\ height = 8
       THEN matrix
       ELSE [y \in 1..height |-> [x \in 1..width |-> im[matrix[y][x]]]]

\* create_bayer_matrix(size), size = (width, height): a sequence of rows
create_bayer_matrix(size) ==
    LET width == IF size[1] < 8 THEN Min(size[1], 8) ELSE 8
        height == IF size[2] < 8 THEN Min(size[2], 8) ELSE 8
        matrix == [y \in 1..height |-> [x \in 1..width |-> big_matrix[x][y]]]
        flat_values == SubSeq([k \in 1..(width * height) |->
                          matrix[((k - 1) \div width) + 1][((k - 1) % width) + 1]],
                              1, width * height)
        im == index_map(sorted(flat_values))
    IN IF width = 8 /\ height = 8
       THEN big_matrix
       ELSE [y \in 1..height |-> [x \in 1..width |-> im[matrix[y][x]]]]

\* ---------------------------------------------------------- diffusion_maps.py
\* An entry is [offset |-> <<dx, dy>>, factor |-> <<numerator, denominator>>].
\* Mutant of floyd_steinberg: the first entry points back, at the pixel already
\* quantized.
floyd_steinberg_backward ==
    << [offset |-> <<-1, 0>>, factor |-> <<7, 16>>],
       [offset |-> <<-1, 1>>, factor |-> <<3, 16>>],
       [offset |-> <<0, 1>>, factor |-> <<5, 16>>],
       [offset |-> <<1, 1>>, factor |-> <<1, 16>>] >>

floyd_steinberg ==
    << [offset |-> <<1, 0>>, factor |-> <<7, 16>>],
       [offset |-> <<-1, 1>>, factor |-> <<3, 16>>],
       [offset |-> <<0, 1>>, factor |-> <<5, 16>>],
       [offset |-> <<1, 1>>, factor |-> <<1, 16>>] >>

false_floyd_steinberg ==
    << [offset |-> <<1, 0>>, factor |-> <<3, 8>>],
       [offset |-> <<0, 1>>, factor |-> <<3, 8>>],
       [offset |-> <<1, 1>>, factor |-> <<2, 8>>] >>

\* Mutant of jarvis: the entry at (0, 2) is 5/48, as in the published kernel.
jarvis_published ==
    << [offset |-> <<1, 0>>, factor |-> <<7, 48>>],
       [offset |-> <<2, 0>>, factor |-> <<5, 48>>],
       [offset |-> <<-2, 1>>, factor |-> <<3, 48>>],
       [offset |-> <<-1, 1>>, factor |-> <<5, 48>>],
       [offset |-> <<0, 1>>, factor |-> <<7, 48>>],
       [offset |-> <<1, 1>>, factor |-> <<5, 48>>],
       [offset |-> <<2, 1>>, factor |-> <<3, 48>>],
       [offset |-> <<-2, 2>>, factor |-> <<1, 48>>],
       [offset |-> <<-1, 2>>, factor |-> <<3, 48>>],
       [offset |-> <<0, 2>>, factor |-> <<5, 48>>],
       [offset |-> <<1, 2>>, factor |-> <<3, 48>>],
       [offset |-> <<2, 2>>, factor |-> <<1, 48>>] >>

jarvis ==
    << [offset |-> <<1, 0>>, factor |-> <<7, 48>>],
       [offset |-> <<2, 0>>, factor |-> <<5, 48>>],
       [offset |-> <<-2, 1>>, factor |-> <<3, 48>>],
       [offset |-> <<-1, 1>>, factor |-> <<5, 48>>],
       [offset |-> <<0, 1>>, factor |-> <<7, 48>>],
       [offset |-> <<1, 1>>, factor |-> <<5, 48>>],
       [offset |-> <<2, 1>>, factor |-> <<3, 48>>],
       [offset |-> <<-2, 2>>, factor |-> <<1, 48>>],
       [offset |-> <<-1, 2>>, factor |-> <<3, 48>>],
       [offset |-> <<0, 2>>, factor |-> <<4, 48>>],
       [offset |-> <<1, 2>>, factor |-> <<3, 48>>],
       [offset |-> <<2, 2>>, factor |-> <<1, 48>>] >>

stucki ==
    << [offset |-> <<1, 0>>, factor |-> <<8, 42>>],
       [offset |-> <<2, 0>>, factor |-> <<4, 42>>],
       [offset |-> <<-2, 1>>, factor |-> <<2, 42>>],
       [offset |-> <<-1, 1>>, factor |-> <<4, 42>>],
       [offset |-> <<0, 1>>, factor |-> <<8, 42>>],
       [offset |-> <<1, 1>>, factor |-> <<4, 42>>],
       [offset |-> <<2, 1>>, factor |-> <<2, 42>>],
       [offset |-> <<-2, 2>>, factor |-> <<1, 42>>],
       [offset |-> <<-1, 2>>, factor |-> <<2, 42>>],
       [offset |-> <<0, 2>>, factor |-> <<4, 42>>],
       [offset |-> <<1, 2>>, factor |-> <<2, 42>>],
       [offset |-> <<2, 2>>, factor |-> <<1, 42>>] >>

burkes ==
    << [offset |-> <<1, 0>>, factor |-> <<8, 32>>],
       [offset |-> <<2, 0>>, factor |-> <<4, 32>>],
       [offset |-> <<-2, 1>>, factor |-> <<2, 32>>],
       [offset |-> <<-1, 1>>, factor |-> <<4, 32>>],
       [offset |-> <<0, 1>>, factor |-> <<8, 32>>],
       [offset |-> <<1, 1>>, factor |-> <<4, 32>>],
       [offset |-> <<2, 1>>, factor |-> <<2, 32>>] >>

sierra3 ==
    << [offset |-> <<1, 0>>, factor |-> <<5, 32>>],
       [offset |-> <<2, 0>>, factor |-> <<3, 32>>],
       [offset |-> <<-2, 1>>, factor |-> <<2, 32>>],
       [offset |-> <<-1, 1>>, factor |-> <<4, 32>>],
       [offset |-> <<0, 1>>, factor |-> <<5, 32>>],
       [offset |-> <<1, 1>>, factor |-> <<4, 32>>],
       [offset |-> <<2, 1>>, factor |-> <<2, 32>>],
       [offset |-> <<-1, 2>>, factor |-> <<2, 32>>],
       [offset |-> <<0, 2>>, factor |-> <<3, 32>>],
       [offset |-> <<1, 2>>, factor |-> <<2, 32>>] >>

sierra2 ==
    << [offset |-> <<1, 0>>, factor |-> <<4, 16>>],
       [offset |-> <<2, 0>>, factor |-> <<3, 16>>],
       [offset |-> <<-2, 1>>, factor |-> <<1, 16>>],
       [offset |-> <<-1, 1>>, factor |-> <<2, 16>>],
       [offset |-> <<0, 1>>, factor |-> <<3, 16>>],
       [offset |-> <<1, 1>>, factor |-> <<2, 16>>],
       [offset |-> <<2, 1>>, factor |-> <<1, 16>>] >>

sierra2_4a ==
    << [offset |-> <<1, 0>>, factor |-> <<2, 4>>],
       [offset |-> <<-2, 1>>, factor |-> <<1, 4>>],
       [offset |-> <<-1, 1>>, factor |-> <<1, 4>>] >>

DIFFUSION_MAPS ==
    ("floydSteinberg" :> floyd_steinberg) @@
    ("falseFloydSteinberg" :> false_floyd_steinberg) @@
    ("jarvis" :> jarvis) @@ ("stucki" :> stucki) @@ ("burkes" :> burkes) @@
    ("sierra3" :> sierra3) @@ ("sierra2" :> sierra2) @@
    ("Sierra2-4A" :> sierra2_4a)

\* Mutant of get_diffusion_map: an unregistered name gets the burkes kernel.
get_diffusion_map_burkes(name) ==
    IF name \in DOMAIN DIFFUSION_MAPS THEN DIFFUSION_MAPS[name] ELSE burkes

get_diffusion_map(name) ==
    IF name \in DOMAIN DIFFUSION_MAPS THEN DIFFUSION_MAPS[name] ELSE floyd_steinberg

\* ------------------------------------------------------------- utilities.py
\* random_integer(min_val, max_val): the values random.randint can return
random_integer(min_val, max_val) == min_val..max_val

\* The draws explored (a subset of random_integer(0, 255)).
Draws == {0, 1, 128, 129, 255}

\* the draws that tell apart the channel values 0, 128 and 255 of the images
\* of the whole call: every outcome of an rgb step on them comes from one of
\* these
CoarseDraws == {0, 128, 255}

\* ------------------------------------------------------------------ dither.py
EmptyDict == [k \in {} |-> 0]

\* A palette option is a str, [str |-> name], or a list of hex colours,
\* [list |-> <<...>>].
DEFAULT_OPTIONS ==
    ("ditheringType" :> "errorDiffusion") @@
    ("errorDiffusionMatrix" :> "floydSteinberg") @@
    ("serpentine" :> FALSE) @@
    ("orderedDitheringType" :> "bayer") @@
    ("orderedDitheringMatrix" :> <<4, 4>>) @@
    ("randomDitheringType" :> "blackAndWhite") @@
    ("palette" :> [str |-> "default"]) @@
    ("sampleColorsFromImage" :> FALSE) @@
    ("numberOfSampleColors" :> 10)

\* Mutant of merge_options: the defaults win over the caller's values.
merge_options_defaults_win(options) ==
    LET given == IF options.isNone THEN EmptyDict ELSE options.dict
    IN [k \in DOMAIN DEFAULT_OPTIONS \cup DOMAIN given |->
          IF k \in DOMAIN DEFAULT_OPTIONS THEN DEFAULT_OPTIONS[k] ELSE given[k]]

\* {**DEFAULT_OPTIONS, **(options or {})}
merge_options(options) ==
    LET given == IF options.isNone THEN EmptyDict ELSE options.dict
    IN [k \in DOMAIN DEFAULT_OPTIONS \cup DOMAIN given |->
          IF k \in DOMAIN given THEN given[k] ELSE DEFAULT_OPTIONS[k]]

\* PALETTES.get(palette, PALETTES["default"]) for a str, else the list itself
palette_array(palette) ==
    IF "str" \in DOMAIN palette
    THEN IF palette.str \in DOMAIN PALETTES
         THEN PALETTES[palette.str] ELSE PALETTES["default"]
    ELSE palette.list

\* set_color_palette(palette): the [R, G, B] of every entry (fixed point)
set_color_palette(palette) ==
    LET arr == palette_array(palette)
    IN [i \in 1..Len(arr) |-> [c \in 1..3 |-> hex_to_rgb(arr[i])[c] * Scale]]

\* pixel_index is the code's 0-based offset into the flat buffer
get_pixel_color_values(pixel_index, data) ==
    << data[pixel_index + 1], data[pixel_index + 2],
       data[pixel_index + 3], data[pixel_index + 4] >>

clamp_uint8(value) ==
    IF value < 0 THEN 0
    ELSE IF value > 255 * Scale THEN 255 * Scale
    ELSE value

\* Mutant of set_pixel: the red value is also stored in the cell after the
\* pixel.
set_pixel_smear(data, pixel_index, pixel) ==
    [k \in 1..Len(data) |->
        IF k \in (pixel_index + 1)..(pixel_index + 4)
        THEN clamp_uint8(pixel[k - pixel_index])
        ELSE IF k = pixel_index + 5 THEN clamp_uint8(pixel[1])
        ELSE data[k]]

\* Mutant of set_pixel: the values are stored as they come, not clamped.
set_pixel_unclamped(data, pixel_index, pixel) ==
    [data EXCEPT ![pixel_index + 1] = pixel[1],
                 ![pixel_index + 2] = pixel[2],
                 ![pixel_index + 3] = pixel[3],
                 ![pixel_index + 4] = pixel[4]]

set_pixel(data, pixel_index, pixel) ==
    [data EXCEPT ![pixel_index + 1] = clamp_uint8(pixel[1]),
                 ![pixel_index + 2] = clamp_uint8(pixel[2]),
                 ![pixel_index + 3] = clamp_uint8(pixel[3]),
                 ![pixel_index + 4] = clamp_uint8(pixel[4])]

\* Mutant of get_quant_error: the error of the alpha channel is added to the
\* error of the red channel.
get_quant_error_alpha_in_red(old_pixel, new_pixel) ==
    [i \in 1..Len(old_pixel) |->
        IF i = 1 THEN (old_pixel[1] - new_pixel[1]) + (old_pixel[4] - new_pixel[4])
        ELSE old_pixel[i] - new_pixel[i]]

get_quant_error(old_pixel, new_pixel) ==
    [i \in 1..Len(old_pixel) |-> old_pixel[i] - new_pixel[i]]

\* pixel[i] + quant_error[i] * diffusion_factor
add_quant_error(pixel, quant_error, diffusion_factor) ==
    [i \in 1..Len(pixel) |->
        pixel[i] + ((quant_error[i] * diffusion_factor[1]) \div diffusion_factor[2])]

\* Mutant of random_dither_pixel_value: a channel equal to its draw gives 0.
random_dither_pixel_value_le(pixel, draws) ==
    << IF pixel[1] <= draws[1] * Scale THEN 0 ELSE 255 * Scale,
       IF pixel[2] <= draws[2] * Scale THEN 0 ELSE 255 * Scale,
       IF pixel[3] <= draws[3] * Scale THEN 0 ELSE 255 * Scale,
       IF Len(pixel) > 3 THEN pixel[4] ELSE 255 * Scale >>

\* draws: the results of the three random_integer(0, 255) calls, in order
random_dither_pixel_value(pixel, draws) ==
    << IF pixel[1] < draws[1] * Scale THEN 0 ELSE 255 * Scale,
       IF pixel[2] < draws[2] * Scale THEN 0 ELSE 255 * Scale,
       IF pixel[3] < draws[3] * Scale THEN 0 ELSE 255 * Scale,
       IF Len(pixel) > 3 THEN pixel[4] ELSE 255 * Scale >>

\* Mutant of random_dither_black_and_white_pixel_value: a mean equal to the
\* draw gives black.
random_dither_black_and_white_pixel_value_le(pixel, draw) ==
    IF pixel[1] + pixel[2] + pixel[3] <= 3 * draw * Scale
    THEN << 0, 0, 0, 255 * Scale >>
    ELSE << 255 * Scale, 255 * Scale, 255 * Scale, 255 * Scale >>

\* (pixel[0] + pixel[1] + pixel[2]) / 3 < draw, with one draw
random_dither_black_and_white_pixel_value(pixel, draw) ==
    IF pixel[1] + pixel[2] + pixel[3] < 3 * draw * Scale
    THEN << 0, 0, 0, 255 * Scale >>
    ELSE << 255 * Scale, 255 * Scale, 255 * Scale, 255 * Scale >>

\* Mutant of ordered_dither_pixel_value: the row is taken from x and the column
\* from y.
ordered_dither_pixel_value_xy(pixel, coordinates, threshold_map, threshold) ==
    LET map_height == Len(threshold_map)
        map_width == Len(threshold_map[1])
        cell == threshold_map[(coordinates[1] % map_height) + 1]
                             [(coordinates[2] % map_width) + 1]
        n == map_height * map_width
        whole == (cell * threshold) \div n
        part == (((cell * threshold) % n) * Scale) \div n
    IN [i \in 1..Len(pixel) |-> pixel[i] + whole * Scale + part]

\* color + factor * threshold, factor = threshold_map[y % h][x % w] / (h * w)
ordered_dither_pixel_value(pixel, coordinates, threshold_map, threshold) ==
    LET map_height == Len(threshold_map)
        map_width == Len(threshold_map[1])
        cell == threshold_map[(coordinates[2] % map_height) + 1]
                             [(coordinates[1] % map_width) + 1]
        n == map_height * map_width
        whole == (cell * threshold) \div n
        part == (((cell * threshold) % n) * Scale) \div n
    IN [i \in 1..Len(pixel) |-> pixel[i] + whole * Scale + part]

pixel_xy(index, width) == << index % width, index \div width >>

\* Mutant of diffuse: a target is dropped only when its index is outside the
\* buffer, so a column outside the image wraps into the next or previous row.
RECURSIVE diffuse_wrap(_, _, _, _, _, _, _)
diffuse_wrap(data, diffusion_map, k, current_pixel, quant_error, width, height) ==
    IF k > Len(diffusion_map) THEN data
    ELSE
      LET current_x == (current_pixel \div 4) % width
          current_y == (current_pixel \div 4) \div width
          target_x == current_x + diffusion_map[k].offset[1]
          target_y == current_y + diffusion_map[k].offset[2]
          pixel_index == (target_y * width + target_x) * 4
      IN IF pixel_index < 0 \/ pixel_index >= Len(data)
         THEN diffuse_wrap(data, diffusion_map, k + 1, current_pixel, quant_error,
                           width, height)
         ELSE diffuse_wrap(set_pixel(data, pixel_index,
                                add_quant_error(get_pixel_color_values(pixel_index, data),
                                                quant_error, diffusion_map[k].factor)),
                           diffusion_map, k + 1, current_pixel, quant_error, width,
                           height)

\* "for diffusion in diffusion_map": entries k.. of the kernel, applied in order
\* to the buffer (lines 223-242)
RECURSIVE diffuse(_, _, _, _, _, _, _)
diffuse(data, diffusion_map, k, current_pixel, quant_error, width, height) ==
    IF k > Len(diffusion_map) THEN data
    ELSE
      LET current_x == (current_pixel \div 4) % width
          current_y == (current_pixel \div 4) \div width
          target_x == current_x + diffusion_map[k].offset[1]
          target_y == current_y + diffusion_map[k].offset[2]
          pixel_index == (target_y * width + target_x) * 4
      IN IF target_x < 0 \/ target_x >= width \/ target_y < 0 \/ target_y >= height
         THEN diffuse(data, diffusion_map, k + 1, current_pixel, quant_error,
                      width, height)
         ELSE diffuse(set_pixel(data, pixel_index,
                                add_quant_error(get_pixel_color_values(pixel_index, data),
                                                quant_error, diffusion_map[k].factor)),
                      diffusion_map, k + 1, current_pixel, quant_error, width, height)

\* Mutant of Falsy: only None counts as unset, the empty text is a type.
Falsy_none_only(v) == v = PyNone

\* "not options['ditheringType']"

Falsy(v) == v = "" \/ v = PyNone

\* 256 / 4
ordered_dither_threshold == 256 \div 4

\* One iteration of "for current in range(0, len(image_data), 4)" (lines
\* 182-242): the five ifs in order, on the buffer as the previous one left it.
loop_body(data, current_pixel, o, palette, tmap, width, height, draws) ==
    LET old_pixel == get_pixel_color_values(current_pixel, data)
        type == o["ditheringType"]
        d1 == IF Falsy(type) \/ type = "quantizationOnly"
              THEN set_pixel(data, current_pixel,
                             find_closest_palette_color(old_pixel, palette))
              ELSE data
        d2 == IF type = "random" /\ o["randomDitheringType"] = "rgb"
              THEN set_pixel(d1, current_pixel,
                             random_dither_pixel_value(old_pixel, draws))
              ELSE d1
        d3 == IF type = "random" /\ o["randomDitheringType"] = "blackAndWhite"
              THEN set_pixel(d2, current_pixel,
                             random_dither_black_and_white_pixel_value(old_pixel, draws[1]))
              ELSE d2
        d4 == IF type = "ordered"
              THEN set_pixel(d3, current_pixel,
                     find_closest_palette_color(
                        ordered_dither_pixel_value(old_pixel,
                            pixel_xy(current_pixel \div 4, width), tmap,
                            ordered_dither_threshold),
                        palette))
              ELSE d3
        new_pixel == find_closest_palette_color(old_pixel, palette)
        d5 == IF type = "errorDiffusion"
              THEN diffuse(set_pixel(d4, current_pixel, new_pixel),
                           get_diffusion_map(o["errorDiffusionMatrix"]), 1,
                           current_pixel, get_quant_error(old_pixel, new_pixel),
                           width, height)
              ELSE d4
    IN d5

\* np.array(source_image, dtype=np.float64).flatten()
to_float_array(img) == [k \in 1..Len(img.data) |-> img.data[k] * Scale]

\* np.clip(image_data, 0, 255).astype(np.uint8): clip, then drop the fraction
to_uint8(data) == [k \in 1..Len(data) |-> clamp_uint8(data[k]) \div Scale]

\* Mutant of fromarray: width and height exchanged.
fromarray_transposed(data, height, width) ==
    [isNone |-> FALSE, size |-> <<height, width>>, data |-> data]

\* Image.fromarray(image_data.reshape((height, width, 4)), "RGBA")
fromarray(data, height, width) ==
    [isNone |-> FALSE, size |-> <<width, height>>, data |-> data]

None == [isNone |-> TRUE]

\* lines 161-178: the merged options, the float buffer, the palette and the
\* threshold map
dither_setup(img, options_arg) ==
    LET o == merge_options(options_arg)
    IN [returned |-> FALSE,
        opts |-> o,
        image_data |-> to_float_array(img),
        color_palette |-> set_color_palette(o["palette"]),
        threshold_map |-> create_bayer_matrix(o["orderedDitheringMatrix"])]

\* Mutant of dither_entry: an empty image is returned for None.
dither_entry_blank(img, options_arg) ==
    IF img.isNone
    THEN [returned |-> TRUE,
          value |-> [isNone |-> FALSE, size |-> <<0, 0>>, data |-> << >>]]
    ELSE dither_setup(img, options_arg)

\* lines 158-178, the call up to the loop: the early return
\* ("if source_image is None: return None") or the setup
dither_entry(img, options_arg) ==
    IF img.isNone
    THEN [returned |-> TRUE, value |-> None]
    ELSE dither_setup(img, options_arg)

\* The whole raster pass from offset current_pixel on, for the dithering types
\* that draw no random numbers.
RECURSIVE raster_pass(_, _, _, _, _, _, _)
raster_pass(data, current_pixel, o, palette_rgb, tmap, width, height) ==
    IF current_pixel >= Len(data) THEN data
    ELSE raster_pass(loop_body(data, current_pixel, o, palette_rgb, tmap, width,
                               height, <<0, 0, 0>>),
                     current_pixel + 4, o, palette_rgb, tmap, width, height)

\* dither_image(img, options_arg) as a function, for those types
dither_image(img, options_arg) ==
    LET e == dither_entry(img, options_arg)
    IN IF e.returned THEN e.value
       ELSE fromarray(to_uint8(raster_pass(e.image_data, 0, e.opts, e.color_palette,
                                           e.threshold_map, img.size[1], img.size[2])),
                      img.size[2], img.size[1])

\* ---------------------------------------------------------------- __init__.py
\* name.lower(), on the names of this model
str_lower(name) ==
    CASE name = "GAMEBOY" -> "gameboy"
      [] name = "Default" -> "default"
      [] OTHER -> name

\* get_default_palettes(name): _PALETTES is the registry dither.py loads
get_default_palettes(name) ==
    LET key == str_lower(name)
    IN IF key \in DOMAIN PALETTES THEN PALETTES[key] ELSE PALETTES["default"]

\* ------------------------------------------------------------------- state
VARIABLES
    pc,             \* where the call in progress stands
    source_image,   \* dither_image: the image argument (None or an RGBA image)
    options,        \* dither_image: the options argument (None or a dict)
    opts,           \* the merged options
    color_palette,  \* set_color_palette(opts["palette"])
    threshold_map,  \* create_bayer_matrix(opts["orderedDitheringMatrix"])
    image_data,     \* the flat float buffer
    current,        \* the loop variable of the raster pass
    diffusion_map,  \* the kernel the pass last fetched (<< >> before the first)
    drawn,          \* history: the random_integer results of the last step of
                    \* a pass that keeps them (<< >> otherwise)
    visits,         \* history: the pixel numbers the pass has processed, in order
    result,         \* what the call returned
    size,           \* create_bayer_matrix: the size argument
    matrix,         \* create_bayer_matrix: the matrix returned
    pixel,          \* find_closest_palette_color: the pixel argument
    palette,        \* find_closest_palette_color: the color_palette argument
    closest,        \* find_closest_palette_color: the colour returned
    r_image,        \* replace_colors: the source image
    original_colors,      \* replace_colors: the hex colours to match
    replace_colors_list,  \* replace_colors: the hex colours to put
    r_data,         \* replace_colors: image_data, the flat uint8 copy
    r_i,            \* replace_colors: the loop variable i
    error_colors,   \* replace_colors: the count of unmatched pixels
    r_result        \* replace_colors: what the call returned

ditherVars == << source_image, options, opts, color_palette, threshold_map,
                 image_data, current, diffusion_map, drawn, visits, result >>

bayerVars == << size, matrix >>

closestVars == << pixel, palette, closest >>

replaceVars == << r_image, original_colors, replace_colors_list, r_data, r_i,
                  error_colors, r_result >>

vars == << pc, ditherVars, bayerVars, closestVars, replaceVars >>

Pending == [pending |-> TRUE]

\* ------------------------------------------------------------------ inputs
Shapes == {s \in (1..MaxPixels) \X (1..MaxPixels) : s[1] * s[2] <= MaxPixels}

\* RGBA values of input pixels: opaque black, opaque mid grey, translucent
\* white
PixelColors == { <<0, 0, 0, 255>>, <<128, 128, 128, 255>>, <<255, 255, 255, 100>> }

ImagesOf(s) ==
    { [isNone |-> FALSE, size |-> s,
       data |-> [k \in 1..(4 * s[1] * s[2]) |-> px[((k - 1) \div 4) + 1][((k - 1) % 4) + 1]]]
      : px \in [1..(s[1] * s[2]) -> PixelColors] }

Images == UNION {ImagesOf(s) : s \in Shapes}

NumPixels(img) == img.size[1] * img.size[2]

DitheringTypes ==
    {"errorDiffusion", "ordered", "random", "quantizationOnly", "", PyNone, "atkinson"}

KernelNames == DOMAIN DIFFUSION_MAPS \cup {"atkinson", "sierra2-4a", PyNone}

MatrixSizes == { <<1, 1>>, <<2, 2>>, <<3, 3>>, <<4, 4>>, <<2, 4>>, <<5, 8>>,
                 <<8, 8>>, <<10, 10>> }

RandomTypes == {"rgb", "blackAndWhite", "grayscale"}

RGBList == << <<"#","f","0","0">>, <<"0","F","0">>, <<"#","0","0","0","0","f","f">>,
              <<"#","F","F","F","F","F","F">>, <<"0","0","0","0","0","0">> >>

PaletteOptions ==
    { [str |-> "default"], [str |-> "gameboy"], [str |-> "GAMEBOY"],
      [str |-> "nonexistent"], [list |-> RGBList] }

FewPalettes == { [str |-> "gameboy"], [list |-> RGBList] }

\* option dicts whose values the code accepts
Configs ==
    {EmptyDict}
    \cup { ("ditheringType" :> t) @@ ("palette" :> p)
           : t \in DitheringTypes, p \in FewPalettes }
    \cup { ("palette" :> p) : p \in PaletteOptions }
    \cup { ("errorDiffusionMatrix" :> k) : k \in KernelNames }
    \cup { ("ditheringType" :> "ordered") @@ ("orderedDitheringMatrix" :> m)
           @@ ("palette" :> [list |-> RGBList]) : m \in MatrixSizes }
    \cup { ("ditheringType" :> "ordered") @@ ("orderedDitheringMatrix" :> m)
           @@ ("palette" :> [str |-> "gameboy"]) : m \in {<<1, 1>>, <<2, 2>>, <<2, 4>>} }
    \cup { ("ditheringType" :> "random") @@ ("randomDitheringType" :> r)
           @@ ("palette" :> p) : r \in RandomTypes, p \in FewPalettes }

\* option dicts with values the code cannot use (an empty palette, a text
\* that is no hex colour, an empty matrix, a kernel that is no name)
MalformedConfigs ==
    { ("palette" :> [list |-> << >>]),
      ("palette" :> [list |-> << <<"#","g","g">> >>]),
      ("ditheringType" :> "ordered") @@ ("orderedDitheringMatrix" :> <<0, 0>>),
      ("ditheringType" :> "atkinson") @@ ("errorDiffusionMatrix" :> PyNone) }

IsRandom(d) == "ditheringType" \in DOMAIN d /\ d["ditheringType"] = "random"

\* ----------------------------------------------------------- dither_image
\* the calls explored, as <<source_image, options>>
DitherArguments ==
    { <<img, [isNone |-> FALSE, dict |-> d]>> :
        img \in Images,
        d \in Configs }
    \cup { <<img, [isNone |-> TRUE, dict |-> EmptyDict]>> : img \in Images }
    \cup { <<None, [isNone |-> TRUE, dict |-> EmptyDict]>> }
    \cup { <<None, [isNone |-> FALSE, dict |-> d]>> : d \in Configs \cup MalformedConfigs }

DitherInit ==
    /\ pc = "call"
    /\ \E a \in DitherArguments :
          /\ (~a[1].isNone /\ IsRandom(a[2].dict)) => NumPixels(a[1]) <= MaxRandomPixels
          /\ source_image = a[1]
          /\ options = a[2]
    /\ opts = EmptyDict
    /\ color_palette = << >>
    /\ threshold_map = << >>
    /\ image_data = << >>
    /\ current = 0
    /\ diffusion_map = << >>
    /\ drawn = << >>
    /\ visits = << >>
    /\ result = Pending

DitherNone ==
    /\ pc = "call"
    /\ dither_entry(source_image, options).returned
    /\ result' = dither_entry(source_image, options).value
    /\ pc' = "done"
    /\ UNCHANGED << source_image, options, opts, color_palette, threshold_map,
                    image_data, current, diffusion_map, drawn, visits >>
    /\ UNCHANGED << bayerVars, closestVars, replaceVars >>

DitherSetup ==
    /\ pc = "call"
    /\ ~dither_entry(source_image, options).returned
    /\ LET e == dither_entry(source_image, options)
       IN /\ opts' = e.opts
          /\ image_data' = e.image_data
          /\ color_palette' = e.color_palette
          /\ threshold_map' = e.threshold_map
    /\ current' = 0
    /\ pc' = "loop"
    /\ UNCHANGED << source_image, options, diffusion_map, drawn, visits, result >>
    /\ UNCHANGED << bayerVars, closestVars, replaceVars >>

\* Mutant of DitherPixel: "range(0, len(image_data), 8)", every second pixel.
DitherPixelStride ==
    /\ pc = "loop"
    /\ current < Len(image_data)
    /\ \E draws \in IF opts["ditheringType"] # "random" THEN {<<0, 0, 0>>}
                    ELSE IF opts["randomDitheringType"] = "rgb"
                    THEN CoarseDraws \X CoarseDraws \X CoarseDraws
                    ELSE { <<d>> : d \in Draws } :
          image_data' = loop_body(image_data, current, opts, color_palette,
                                  threshold_map, source_image.size[1],
                                  source_image.size[2], draws)
    /\ current' = current + 8
    /\ diffusion_map' = IF opts["ditheringType"] = "errorDiffusion"
                        THEN get_diffusion_map(opts["errorDiffusionMatrix"])
                        ELSE diffusion_map
    /\ visits' = Append(visits, current \div 4)
    /\ UNCHANGED << pc, source_image, options, opts, color_palette,
                    threshold_map, drawn, result >>
    /\ UNCHANGED << bayerVars, closestVars, replaceVars >>

\* lines 181-242: one pixel of the raster pass
DitherPixel ==
    /\ pc = "loop"
    /\ current < Len(image_data)
    /\ \E draws \in IF opts["ditheringType"] # "random" THEN {<<0, 0, 0>>}
                    ELSE IF opts["randomDitheringType"] = "rgb"
                    THEN CoarseDraws \X CoarseDraws \X CoarseDraws
                    ELSE { <<d>> : d \in Draws } :
          image_data' = loop_body(image_data, current, opts, color_palette,
                                  threshold_map, source_image.size[1],
                                  source_image.size[2], draws)
    /\ current' = current + 4
    /\ diffusion_map' = IF opts["ditheringType"] = "errorDiffusion"
                        THEN get_diffusion_map(opts["errorDiffusionMatrix"])
                        ELSE diffusion_map
    /\ visits' = Append(visits, current \div 4)
    /\ UNCHANGED << pc, source_image, options, opts, color_palette,
                    threshold_map, drawn, result >>
    /\ UNCHANGED << bayerVars, closestVars, replaceVars >>

\* lines 244-247: the loop is over; convert back and return
DitherReturn ==
    /\ pc = "loop"
    /\ current >= Len(image_data)
    /\ result' = fromarray(to_uint8(image_data), source_image.size[2],
                           source_image.size[1])
    /\ pc' = "done"
    /\ UNCHANGED << source_image, options, opts, color_palette, threshold_map,
                    image_data, current, diffusion_map, drawn, visits >>
    /\ UNCHANGED << bayerVars, closestVars, replaceVars >>

\* The variables of the calls a specification does not make stay as they are
\* here.
DitherIdle ==
    /\ source_image = None
    /\ options = [isNone |-> TRUE, dict |-> EmptyDict]
    /\ opts = EmptyDict
    /\ color_palette = << >>
    /\ threshold_map = << >>
    /\ image_data = << >>
    /\ current = 0
    /\ diffusion_map = << >>
    /\ drawn = << >>
    /\ visits = << >>
    /\ result = Pending

BayerIdle == size = <<1, 1>> /\ matrix = << >>

ClosestIdle == pixel = << >> /\ palette = << >> /\ closest = << >>

ReplaceIdle ==
    /\ r_image = None
    /\ original_colors = << >>
    /\ replace_colors_list = << >>
    /\ r_data = << >>
    /\ r_i = 0
    /\ error_colors = 0
    /\ r_result = Pending

Init == DitherInit /\ BayerIdle /\ ClosestIdle /\ ReplaceIdle

Next == DitherNone \/ DitherSetup \/ DitherPixel \/ DitherReturn

\* dither_image, from the call to the return
Spec == Init /\ [][Next]_vars

\* dither_image from before the call, where a call that can take a step does
\* take one: the loop is a for over a range and nothing in it waits.
BeforeCall ==
    /\ pc = "start"
    /\ DitherIdle /\ BayerIdle /\ ClosestIdle /\ ReplaceIdle

\* the caller calls dither_image with an image and options
DitherCall ==
    /\ pc = "start"
    /\ \E a \in DitherArguments :
          /\ (~a[1].isNone /\ IsRandom(a[2].dict)) => NumPixels(a[1]) <= MaxRandomPixels
          /\ source_image' = a[1]
          /\ options' = a[2]
    /\ pc' = "call"
    /\ UNCHANGED << opts, color_palette, threshold_map, image_data, current,
                    diffusion_map, drawn, visits, result >>
    /\ UNCHANGED << bayerVars, closestVars, replaceVars >>

NextFair == DitherCall \/ DitherNone \/ DitherSetup \/ DitherPixel \/ DitherReturn

\* a call in progress: between the call and the return some step is enabled
\* (the early return or the setup at "call"; in the loop a pixel step while
\* current < len(image_data) and the return after it)
Running == pc \in {"call", "loop"}

\* weak fairness of the steps of a call in progress, with ENABLED written out
\* as Running: a step that is possible is taken
RunsOn == []<>(~Running) \/ []<><<DitherNone \/ DitherSetup \/ DitherPixel \/ DitherReturn>>_vars

SpecFair == BeforeCall /\ [][NextFair]_vars /\ WF_vars(DitherCall) /\ RunsOn

\* --------------------------------------------- dither_image, random modes
\* The pass of the two random modes with the draws of each step kept. The
\* images are rows of up to MaxRandomPixels pixels whose channels are draws,
\* next to draws, and (127,128,129) whose mean is a draw.
RandomColors == { <<127, 128, 129, 50>>, <<255, 255, 255, 255>>, <<0, 1, 255, 0>> }

RandomImages ==
    UNION { { [isNone |-> FALSE, size |-> <<n, 1>>,
               data |-> [k \in 1..(4 * n) |-> px[((k - 1) \div 4) + 1][((k - 1) % 4) + 1]]]
              : px \in [1..n -> RandomColors] }
            : n \in 1..MaxRandomPixels }

RandomPalettes == { [str |-> "default"], [str |-> "gameboy"] }

RandomConfigs ==
    { ("ditheringType" :> "random") @@ ("randomDitheringType" :> r) @@ ("palette" :> p)
      : r \in {"rgb", "blackAndWhite"}, p \in RandomPalettes }

RandomInit ==
    /\ pc = "call"
    /\ source_image \in RandomImages
    /\ \E d \in RandomConfigs : options = [isNone |-> FALSE, dict |-> d]
    /\ opts = EmptyDict
    /\ color_palette = << >>
    /\ threshold_map = << >>
    /\ image_data = << >>
    /\ current = 0
    /\ diffusion_map = << >>
    /\ drawn = << >>
    /\ visits = << >>
    /\ result = Pending

\* One iteration of the loop in a random mode (lines 182-201): rgb calls
\* random_integer once per colour channel, blackAndWhite once per pixel.
RandomPixel ==
    /\ pc = "loop"
    /\ current < Len(image_data)
    /\ \E draws \in IF opts["randomDitheringType"] = "rgb"
                    THEN Draws \X Draws \X Draws ELSE { <<d>> : d \in Draws } :
          /\ image_data' = loop_body(image_data, current, opts, color_palette,
                                     threshold_map, source_image.size[1],
                                     source_image.size[2], draws)
          /\ drawn' = draws
    /\ current' = current + 4
    /\ visits' = Append(visits, current \div 4)
    /\ UNCHANGED << pc, source_image, options, opts, color_palette,
                    threshold_map, diffusion_map, result >>
    /\ UNCHANGED << bayerVars, closestVars, replaceVars >>

InitRandom == RandomInit /\ BayerIdle /\ ClosestIdle /\ ReplaceIdle

NextRandom == DitherSetup \/ RandomPixel \/ DitherReturn

SpecRandom == InitRandom /\ [][NextRandom]_vars

\* ------------------------------------------------------ create_bayer_matrix
\* The sizes asked for go up to MaxRequest in each dimension.
MaxRequest == 10

BayerInit ==
    /\ pc = "call"
    /\ size \in (1..MaxRequest) \X (1..MaxRequest)
    /\ matrix = << >>

BayerCall ==
    /\ pc = "call"
    /\ matrix' = create_bayer_matrix(size)
    /\ pc' = "done"
    /\ UNCHANGED << size, ditherVars, closestVars, replaceVars >>

InitBayer == BayerInit /\ DitherIdle /\ ClosestIdle /\ ReplaceIdle

NextBayer == BayerCall

SpecBayer == InitBayer /\ [][NextBayer]_vars

\* ----------------------------------------------- find_closest_palette_color
\* Palettes of 1..MaxPaletteLen entries.
MaxPaletteLen == 3

\* Channel values in half units, so that a pixel can lie halfway between two
\* integer colours.
Half == Scale \div 2

\* palette entries, with three channels and with four
EntryColors ==
    { <<0, 0, 0>>, <<200 * Scale, 0, 0>>, <<100 * Scale, 99 * Scale, 0>>,
      <<0, 0, 0, 128 * Scale>>, <<255 * Scale, 255 * Scale, 255 * Scale, 0>> }

ProbePixels ==
    { <<100 * Scale, 0, 0, 255 * Scale>>, <<0, 0, 0, 7 * Scale>>,
      <<201 * Half, 198 * Half, 0, 255 * Scale>>,
      <<128 * Scale, 128 * Scale, 128 * Scale, 0>>,
      <<255 * Scale, 255 * Scale, 255 * Scale>> }

ClosestInit ==
    /\ pc = "call"
    /\ pixel \in ProbePixels
    /\ palette \in UNION {[1..n -> EntryColors] : n \in 1..MaxPaletteLen}
    /\ closest = << >>

ClosestCall ==
    /\ pc = "call"
    /\ closest' = find_closest_palette_color(pixel, palette)
    /\ pc' = "done"
    /\ UNCHANGED << pixel, palette, ditherVars, bayerVars, replaceVars >>

InitClosest == ClosestInit /\ DitherIdle /\ BayerIdle /\ ReplaceIdle

NextClosest == ClosestCall

SpecClosest == InitClosest /\ [][NextClosest]_vars

\* ------------------------------------------------------- replace_colors.py
\* hex_color.lstrip("#")
RECURSIVE lstrip_hash(_)
lstrip_hash(s) ==
    IF Len(s) > 0 /\ s[1] = "#" THEN lstrip_hash(Tail(s)) ELSE s

\* hex_to_rgb of replace_colors.py, for a text that is a hex colour (int()
\* raises on any other)
replace_hex_to_rgb(hex_color) ==
    LET t == AfterHash(hex_color)
        full == IF IsShorthand(hex_color)
                THEN <<"#", t[1], t[1], t[2], t[2], t[3], t[3]>>
                ELSE hex_color
        u == lstrip_hash(full)
    IN << 16 * HexDigit(u[1]) + HexDigit(u[2]),
          16 * HexDigit(u[3]) + HexDigit(u[4]),
          16 * HexDigit(u[5]) + HexDigit(u[6]) >>

rgb_list(hex_list) == [k \in 1..Len(hex_list) |-> replace_hex_to_rgb(hex_list[k])]

\* "for idx, orig_color in enumerate(original_colors_rgb): ... break": the
\* 0-based index of the first entry equal to the pixel at offset i in R, G and
\* B, or -1
RECURSIVE first_match_from(_, _, _, _)
first_match_from(data, i, original_colors_rgb, idx) ==
    IF idx >= Len(original_colors_rgb) THEN -1
    ELSE IF /\ data[i + 1] = original_colors_rgb[idx + 1][1]
            /\ data[i + 2] = original_colors_rgb[idx + 1][2]
            /\ data[i + 3] = original_colors_rgb[idx + 1][3]
         THEN idx
         ELSE first_match_from(data, i, original_colors_rgb, idx + 1)

\* Mutant of replace_pixel: a matched colour without a replacement is counted
\* as unmatched and the pass goes on.
replace_pixel_skip(data, i, original_colors_rgb, replace_colors_rgb, errors) ==
    LET color_index == first_match_from(data, i, original_colors_rgb, 0)
    IN IF color_index # -1 /\ color_index < Len(replace_colors_rgb)
       THEN [abort |-> FALSE,
             data |-> [data EXCEPT
                         ![i + 1] = replace_colors_rgb[color_index + 1][1],
                         ![i + 2] = replace_colors_rgb[color_index + 1][2],
                         ![i + 3] = replace_colors_rgb[color_index + 1][3]],
             errors |-> errors]
       ELSE [abort |-> FALSE, data |-> data, errors |-> errors + 1]

\* Mutant of replace_pixel: the pass ends at a pixel that matches no original
\* colour.
replace_pixel_stop(data, i, original_colors_rgb, replace_colors_rgb, errors) ==
    LET color_index == first_match_from(data, i, original_colors_rgb, 0)
    IN IF color_index # -1 /\ color_index < Len(replace_colors_rgb)
       THEN [abort |-> FALSE,
             data |-> [data EXCEPT
                         ![i + 1] = replace_colors_rgb[color_index + 1][1],
                         ![i + 2] = replace_colors_rgb[color_index + 1][2],
                         ![i + 3] = replace_colors_rgb[color_index + 1][3]],
             errors |-> errors]
       ELSE [abort |-> TRUE, data |-> data, errors |-> errors]

\* Mutant of replace_pixel: the colour written is matched and replaced once
\* more.
replace_pixel_again(data, i, original_colors_rgb, replace_colors_rgb, errors) ==
    LET color_index == first_match_from(data, i, original_colors_rgb, 0)
    IN IF color_index # -1
       THEN IF color_index < Len(replace_colors_rgb)
            THEN LET once == [data EXCEPT
                                ![i + 1] = replace_colors_rgb[color_index + 1][1],
                                ![i + 2] = replace_colors_rgb[color_index + 1][2],
                                ![i + 3] = replace_colors_rgb[color_index + 1][3]]
                     again == first_match_from(once, i, original_colors_rgb, 0)
                 IN [abort |-> FALSE,
                     data |-> IF again # -1 /\ again < Len(replace_colors_rgb)
                              THEN [once EXCEPT
                                      ![i + 1] = replace_colors_rgb[again + 1][1],
                                      ![i + 2] = replace_colors_rgb[again + 1][2],
                                      ![i + 3] = replace_colors_rgb[again + 1][3]]
                              ELSE once,
                     errors |-> errors]
            ELSE [abort |-> TRUE, data |-> data, errors |-> errors]
       ELSE [abort |-> FALSE, data |-> data, errors |-> errors + 1]

\* One iteration of "for i in range(0, len(image_data), 4)" (lines 69-94):
\* whether the call returns None here, the buffer and the unmatched count.
replace_pixel(data, i, original_colors_rgb, replace_colors_rgb, errors) ==
    LET color_index == first_match_from(data, i, original_colors_rgb, 0)
    IN IF color_index # -1
       THEN IF color_index < Len(replace_colors_rgb)
            THEN [abort |-> FALSE,
                  data |-> [data EXCEPT
                              ![i + 1] = replace_colors_rgb[color_index + 1][1],
                              ![i + 2] = replace_colors_rgb[color_index + 1][2],
                              ![i + 3] = replace_colors_rgb[color_index + 1][3]],
                  errors |-> errors]
            ELSE [abort |-> TRUE, data |-> data, errors |-> errors]
       ELSE [abort |-> FALSE, data |-> data, errors |-> errors + 1]

\* The loop of lines 68-94 from offset i on: the first abort ends it.
RECURSIVE replace_pass(_, _, _, _, _)
replace_pass(data, i, original_colors_rgb, replace_colors_rgb, errors) ==
    IF i >= Len(data) THEN [abort |-> FALSE, data |-> data, errors |-> errors]
    ELSE LET step == replace_pixel(data, i, original_colors_rgb, replace_colors_rgb,
                                   errors)
         IN IF step.abort THEN step
            ELSE replace_pass(step.data, i + 4, original_colors_rgb,
                              replace_colors_rgb, step.errors)

\* replace_colors(source_image, original_colors, replace_colors_list) as a
\* function: what it returns and the unmatched count it reports
replace_colors(img, original, replacement) ==
    LET pass == replace_pass(img.data, 0, rgb_list(original), rgb_list(replacement), 0)
    IN [value |-> IF pass.abort THEN None
                  ELSE fromarray(pass.data, img.size[2], img.size[1]),
        error_colors |-> pass.errors]

\* Images of at most MaxReplacePixels pixels.
MaxReplacePixels == 3

ReplaceShapes ==
    {s \in (1..MaxReplacePixels) \X (1..MaxReplacePixels) :
        s[1] * s[2] <= MaxReplacePixels}

ReplacePixelColors ==
    { <<0, 0, 0, 255>>, <<255, 255, 255, 255>>, <<255, 0, 0, 128>>,
      <<17, 17, 17, 255>> }

ReplaceImagesOf(s) ==
    { [isNone |-> FALSE, size |-> s,
       data |-> [k \in 1..(4 * s[1] * s[2]) |-> px[((k - 1) \div 4) + 1][((k - 1) % 4) + 1]]]
      : px \in [1..(s[1] * s[2]) -> ReplacePixelColors] }

HexBlack == <<"#","0","0","0">>
HexWhite == <<"#","f","f","f">>
HexRed == <<"F","F","0","0","0","0">>
Hex111 == <<"#","1","1","1">>
Hex222 == <<"#","2","2","2","2","2","2">>
Hex333 == <<"3","3","3">>

OriginalLists ==
    { << >>, <<HexBlack, HexWhite>>, <<HexWhite, HexBlack, HexRed>>,
      <<HexBlack, HexBlack, HexWhite>>, <<Hex111, HexBlack>> }

ReplaceLists ==
    { << >>, <<Hex111>>, <<Hex111, Hex222>>, <<HexWhite, HexBlack>>,
      <<Hex111, Hex222, Hex333>> }

ReplaceInit ==
    /\ pc = "call"
    /\ r_image \in UNION {ReplaceImagesOf(s) : s \in ReplaceShapes}
    /\ original_colors \in OriginalLists
    /\ replace_colors_list \in ReplaceLists
    /\ r_data = << >>
    /\ r_i = 0
    /\ error_colors = 0
    /\ r_result = Pending

\* lines 55-66: the uint8 copy of the image; error_colors = 0
ReplaceSetup ==
    /\ pc = "call"
    /\ r_data' = r_image.data
    /\ r_i' = 0
    /\ error_colors' = 0
    /\ pc' = "loop"
    /\ UNCHANGED << r_image, original_colors, replace_colors_list, r_result >>
    /\ UNCHANGED << ditherVars, bayerVars, closestVars >>

\* lines 68-94: one pixel, replaced or counted
ReplacePixel ==
    /\ pc = "loop"
    /\ r_i < Len(r_data)
    /\ LET step == replace_pixel(r_data, r_i, rgb_list(original_colors),
                                 rgb_list(replace_colors_list), error_colors)
       IN /\ ~step.abort
          /\ r_data' = step.data
          /\ error_colors' = step.errors
    /\ r_i' = r_i + 4
    /\ UNCHANGED << pc, r_image, original_colors, replace_colors_list, r_result >>
    /\ UNCHANGED << ditherVars, bayerVars, closestVars >>

\* line 92: "return None", a matched colour has no replacement
ReplaceAbort ==
    /\ pc = "loop"
    /\ r_i < Len(r_data)
    /\ replace_pixel(r_data, r_i, rgb_list(original_colors),
                     rgb_list(replace_colors_list), error_colors).abort
    /\ r_result' = None
    /\ pc' = "done"
    /\ UNCHANGED << r_image, original_colors, replace_colors_list, r_data, r_i,
                    error_colors >>
    /\ UNCHANGED << ditherVars, bayerVars, closestVars >>

\* lines 96-104: the loop is over; report and return the image
ReplaceReturn ==
    /\ pc = "loop"
    /\ r_i >= Len(r_data)
    /\ r_result' = fromarray(r_data, r_image.size[2], r_image.size[1])
    /\ pc' = "done"
    /\ UNCHANGED << r_image, original_colors, replace_colors_list, r_data, r_i,
                    error_colors >>
    /\ UNCHANGED << ditherVars, bayerVars, closestVars >>

InitReplace == ReplaceInit /\ DitherIdle /\ BayerIdle /\ ClosestIdle

NextReplace == ReplaceSetup \/ ReplacePixel \/ ReplaceAbort \/ ReplaceReturn

SpecReplace == InitReplace /\ [][NextReplace]_vars

\* ------------------------------------- dither_image, then replace_colors
\* The workflow of the package: an image is dithered to a palette given as hex
\* colours and the result is mapped to the device colours, a list at least as
\* long as the palette.
PipelineTypes == {"errorDiffusion", "ordered", "quantizationOnly", "", PyNone, "atkinson"}

PipelinePalettes == { <<HexBlack, HexWhite>>, <<HexBlack, HexBlack, HexWhite>>, RGBList }

DeviceLists ==
    { <<HexWhite, HexBlack>>, <<Hex111, Hex222, Hex333>>,
      <<Hex111, Hex222, Hex333, HexRed, HexWhite>>,
      <<HexBlack, Hex111, Hex222, Hex333, HexRed, HexWhite>> }

PipelineInit ==
    /\ pc = "call"
    /\ source_image \in Images
    /\ \E t \in PipelineTypes, P \in PipelinePalettes :
          /\ options = [isNone |-> FALSE,
                        dict |-> ("ditheringType" :> t) @@ ("palette" :> [list |-> P])]
          /\ original_colors = P
    /\ replace_colors_list \in {D \in DeviceLists : Len(D) >= Len(original_colors)}
    /\ opts = EmptyDict
    /\ color_palette = << >>
    /\ threshold_map = << >>
    /\ image_data = << >>
    /\ current = 0
    /\ diffusion_map = << >>
    /\ drawn = << >>
    /\ visits = << >>
    /\ result = Pending
    /\ r_image = None
    /\ r_data = << >>
    /\ r_i = 0
    /\ error_colors = 0
    /\ r_result = Pending

\* dithered = dither_image(img, options)
PipelineDither ==
    /\ pc = "call"
    /\ result' = dither_image(source_image, options)
    /\ r_image' = result'
    /\ pc' = "dithered"
    /\ UNCHANGED << source_image, options, opts, color_palette, threshold_map,
                    image_data, current, diffusion_map, drawn, visits >>
    /\ UNCHANGED << original_colors, replace_colors_list, r_data, r_i, error_colors,
                    r_result >>
    /\ UNCHANGED << bayerVars, closestVars >>

\* replace_colors(dithered, palette, device_colors)
PipelineReplace ==
    /\ pc = "dithered"
    /\ LET call == replace_colors(r_image, original_colors, replace_colors_list)
       IN /\ r_result' = call.value
          /\ error_colors' = call.error_colors
    /\ pc' = "done"
    /\ UNCHANGED << ditherVars, bayerVars, closestVars >>
    /\ UNCHANGED << r_image, original_colors, replace_colors_list, r_data, r_i >>

InitPipeline == PipelineInit /\ BayerIdle /\ ClosestIdle

NextPipeline == PipelineDither \/ PipelineReplace

SpecPipeline == InitPipeline /\ [][NextPipeline]_vars

\* ------------------------------------------------------------------ claims
PixelRGB(img, p) ==
    << img.data[4 * (p - 1) + 1], img.data[4 * (p - 1) + 2], img.data[4 * (p - 1) + 3] >>

PixelAlpha(img, p) == img.data[4 * p]

\* dither_image was given an image and has returned
Returned == pc = "done" /\ ~source_image.isNone

Quantizing == {"quantizationOnly", "ordered", "errorDiffusion"}

RecognizedTypes == {"errorDiffusion", "ordered", "random", "quantizationOnly"}

\* the RGB triples of the palette the options select
EffectivePalette == {hex_to_rgb(h) : h \in Range(palette_array(opts["palette"]))}

\* C1 (palette closure): when dither_image returns for ditheringType
\* quantizationOnly, ordered or errorDiffusion, every pixel of the returned
\* image has the RGB of an entry of the effective palette.
C1_PaletteClosure ==
    (Returned /\ opts["ditheringType"] \in Quantizing) =>
        \A p \in 1..NumPixels(result) : PixelRGB(result, p) \in EffectivePalette

\* an error-diffusion pass over a 2x2 image with a pixel that is no palette
\* colour has returned
C1_Witness ==
    /\ Returned
    /\ opts["ditheringType"] = "errorDiffusion"
    /\ source_image.size = <<2, 2>>
    /\ \E p \in 1..4 : PixelRGB(source_image, p) \notin EffectivePalette

\* C2 (Bayer matrix completeness): for a requested size within 1..8 in both
\* dimensions, the matrix create_bayer_matrix returns holds every integer of
\* 0..(w*h - 1) in exactly one cell.
C2_BayerComplete ==
    (pc = "done" /\ size[1] <= 8 /\ size[2] <= 8) =>
        \A v \in 0..(size[1] * size[2] - 1) :
            Cardinality({c \in (1..Len(matrix)) \X (1..Len(matrix[1])) :
                            matrix[c[1]][c[2]] = v}) = 1

\* the options with ditheringType set to t
WithType(o, t) ==
    [isNone |-> FALSE,
     dict |-> ("ditheringType" :> t) @@ (IF o.isNone THEN EmptyDict ELSE o.dict)]

\* C3 (unrecognized ditheringType): for a non-empty ditheringType that is none
\* of the four recognized ones, dither_image returns what it returns for
\* errorDiffusion with the other options the same.
C3_UnknownTypeIsErrorDiffusion ==
    (/\ Returned
     /\ ~Falsy(opts["ditheringType"])
     /\ opts["ditheringType"] \notin RecognizedTypes) =>
        result = dither_image(source_image, WithType(options, "errorDiffusion"))

\* C4 (palette names): a palette given by name is the registered palette of
\* that name whatever its letter case, and the default palette when the name
\* is registered under no case.
C4_PaletteNameCaseInsensitive ==
    (pc \in {"loop", "done"} /\ ~source_image.isNone /\ "str" \in DOMAIN opts["palette"]) =>
        color_palette =
            set_color_palette([list |-> get_default_palettes(opts["palette"].str)])

\* every pixel of the input has the RGB of a palette entry
InputIsPaletteExact ==
    \A p \in 1..NumPixels(source_image) : PixelRGB(source_image, p) \in EffectivePalette

\* C5 as claimed (quantization-only idempotence): quantizationOnly on an
\* image whose every pixel has the RGB of a palette entry returns the input
\* buffer, every channel of every pixel the same.
C5_ExactInputIsUnchanged ==
    (Returned /\ opts["ditheringType"] = "quantizationOnly" /\ InputIsPaletteExact) =>
        result.data = source_image.data

\* C5 as amended: on such an image quantizationOnly returns the R, G and B of
\* every pixel unchanged and alpha 255 (so the buffer is unchanged exactly
\* when every input alpha is 255).
C5_ExactInputKeepsRGB ==
    (Returned /\ opts["ditheringType"] = "quantizationOnly" /\ InputIsPaletteExact) =>
        /\ \A p \in 1..NumPixels(source_image) :
              /\ PixelRGB(result, p) = PixelRGB(source_image, p)
              /\ PixelAlpha(result, p) = 255
        /\ (result.data = source_image.data) <=>
              (\A p \in 1..NumPixels(source_image) : PixelAlpha(source_image, p) = 255)

\* quantizationOnly has returned on a palette-exact image of two colours, one
\* of them translucent
C5_Witness ==
    /\ Returned
    /\ opts["ditheringType"] = "quantizationOnly"
    /\ InputIsPaletteExact
    /\ \E p, q \in 1..NumPixels(source_image) :
          /\ PixelAlpha(source_image, p) # 255
          /\ PixelRGB(source_image, q) # PixelRGB(source_image, p)

\* r*r + g*g + b*b in half units (the probe pixels and the entries are whole
\* multiples of one half)
HalfSquares(color1, color2) ==
    ((color1[1] - color2[1]) \div Half) * ((color1[1] - color2[1]) \div Half)
    + ((color1[2] - color2[2]) \div Half) * ((color1[2] - color2[2]) \div Half)
    + ((color1[3] - color2[3]) \div Half) * ((color1[3] - color2[3]) \div Half)

\* entry i is at the least distance, and no entry before it is
NearestFirst(i) ==
    /\ \A j \in 1..Len(palette) :
          HalfSquares(palette[i], pixel) <= HalfSquares(palette[j], pixel)
    /\ \A j \in 1..(i - 1) :
          HalfSquares(palette[j], pixel) > HalfSquares(palette[i], pixel)

\* C6 (nearest entry, lowest index on ties): find_closest_palette_color
\* returns the entry at the least Euclidean distance over R, G, B from the
\* pixel, the one of lowest index among several.
C6_ClosestIsNearestFirst ==
    pc = "done" =>
        \E i \in 1..Len(palette) :
            /\ NearestFirst(i)
            /\ SubSeq(closest, 1, 3) = SubSeq(palette[i], 1, 3)
            /\ Len(palette[i]) = 4 => closest = palette[i]

\* a call has returned where two entries of different colour are equally near
\* and the second of them is not the first entry
C6_Witness ==
    /\ pc = "done"
    /\ \E i, j \in 1..Len(palette) :
          /\ 1 < i /\ i < j
          /\ NearestFirst(i)
          /\ HalfSquares(palette[j], pixel) = HalfSquares(palette[i], pixel)
          /\ SubSeq(palette[j], 1, 3) # SubSeq(palette[i], 1, 3)
          /\ SubSeq(closest, 1, 3) = SubSeq(palette[i], 1, 3)

\* C7 (dimension preservation): the image dither_image returns has the width
\* and height of the input and a buffer of width*height*4 values.
C7_DimensionsPreserved ==
    Returned =>
        /\ ~result.isNone
        /\ result.size = source_image.size
        /\ Len(result.data) = source_image.size[1] * source_image.size[2] * 4

\* a call on an image that is not square has returned
C7_Witness ==
    /\ Returned
    /\ source_image.size[1] # source_image.size[2]
    /\ ~result.isNone

\* C8 (null propagation): dither_image(None, options) returns None whatever
\* the options, and has visited no pixel and built no buffer.
C8_NoneReturnsNone ==
    (pc = "done" /\ source_image.isNone) =>
        /\ result = None
        /\ visits = << >>
        /\ image_data = << >>
        /\ opts = EmptyDict

\* a call with None and options the code could not use has returned
C8_Witness ==
    /\ pc = "done"
    /\ source_image.isNone
    /\ ~options.isNone
    /\ options.dict \in MalformedConfigs
    /\ result = None

\* C9 (alpha of quantized output): for quantizationOnly, ordered and
\* errorDiffusion (the palette comes from hex colours, three channels each),
\* every pixel of the returned image has alpha 255.
C9_AlphaOpaque ==
    (Returned /\ opts["ditheringType"] \in Quantizing) =>
        \A p \in 1..NumPixels(result) : PixelAlpha(result, p) = 255

\* an error-diffusion pass has returned on an image whose first pixel is
\* translucent and has a pixel after it (so alpha error was deposited)
C9_Witness ==
    /\ Returned
    /\ opts["ditheringType"] = "errorDiffusion"
    /\ NumPixels(source_image) >= 2
    /\ PixelAlpha(source_image, 1) = 100
    /\ PixelAlpha(result, 1) = 255

\* pixel p of the source matches original_colors[i] and no earlier entry
FirstMatchIs(p, i) ==
    /\ PixelRGB(r_image, p) = hex_to_rgb(original_colors[i])
    /\ \A j \in 1..(i - 1) : PixelRGB(r_image, p) # hex_to_rgb(original_colors[j])

\* some pixel's first match has no replacement
CoverageGap ==
    \E p \in 1..NumPixels(r_image) : \E i \in 1..Len(original_colors) :
        FirstMatchIs(p, i) /\ i > Len(replace_colors_list)

\* C10 (abort on a coverage gap): replace_colors returns None when the first
\* match of some pixel has no replacement, and an image of the input's size
\* when there is no such pixel.
C10_AbortOnCoverageGap ==
    pc = "done" =>
        /\ (r_result = None) <=> CoverageGap
        /\ ~CoverageGap => (~r_result.isNone /\ r_result.size = r_image.size)

\* a call has returned None after replacing an earlier pixel in its copy
C10_Witness ==
    /\ pc = "done"
    /\ CoverageGap
    /\ r_result = None
    /\ r_i > 0
    /\ r_data # r_image.data

\* pixel p of the source has the RGB of no original colour
Unmatched(p) ==
    \A i \in 1..Len(original_colors) :
        PixelRGB(r_image, p) # hex_to_rgb(original_colors[i])

\* C11 (frame of replace_colors): when the call returns an image, a pixel
\* matching no original colour is the same in all four channels, a pixel whose
\* first match is original_colors[i] has the RGB of replace_colors_list[i],
\* every alpha is the source's, and the unmatched pixels are all counted.
C11_UnmatchedLeftAlone ==
    (pc = "done" /\ ~CoverageGap) =>
        /\ ~r_result.isNone
        /\ \A p \in 1..NumPixels(r_image) :
              /\ PixelAlpha(r_result, p) = PixelAlpha(r_image, p)
              /\ Unmatched(p) => PixelRGB(r_result, p) = PixelRGB(r_image, p)
              /\ \A i \in 1..Len(original_colors) :
                    FirstMatchIs(p, i) =>
                        PixelRGB(r_result, p) = hex_to_rgb(replace_colors_list[i])
        /\ error_colors = Cardinality({p \in 1..NumPixels(r_image) : Unmatched(p)})

\* a call has returned an image where an unmatched translucent pixel comes
\* before a pixel that was replaced by another colour
C11_Witness ==
    /\ pc = "done"
    /\ ~r_result.isNone
    /\ \E p, q \in 1..NumPixels(r_image) :
          /\ p < q
          /\ Unmatched(p)
          /\ PixelAlpha(r_image, p) # 255
          /\ ~Unmatched(q)
          /\ PixelRGB(r_result, q) # PixelRGB(r_image, q)

\* the RGB triples of the device colours
DeviceRGB == {hex_to_rgb(replace_colors_list[i]) : i \in 1..Len(replace_colors_list)}

\* C12 (pipeline composition): replace_colors on the output of dither_image
\* for a ditheringType other than random, with the palette of the dithering as
\* original colours and a device list at least as long, returns an image, has
\* no unmatched pixel, and every pixel of it has the RGB of a device colour.
C12_PipelineMapsEveryPixel ==
    pc = "done" =>
        /\ ~r_result.isNone
        /\ error_colors = 0
        /\ \A p \in 1..NumPixels(r_result) : PixelRGB(r_result, p) \in DeviceRGB

\* C13 (8x8 fast path and clamping): a request of 8 or more in both
\* dimensions returns big_matrix as it is, and a request (w, h) returns what
\* (min(w, 8), min(h, 8)) returns.
C13_BigMatrixVerbatimAndClamp ==
    pc = "done" =>
        /\ (size[1] >= 8 /\ size[2] >= 8) => matrix = big_matrix
        /\ matrix = create_bayer_matrix(<<Min(size[1], 8), Min(size[2], 8)>>)

\* a request above 8 in both dimensions, not square, has returned eight rows
C13_Witness ==
    /\ pc = "done"
    /\ size[1] > 8 /\ size[2] > 8 /\ size[1] # size[2]
    /\ Len(matrix) = 8

\* the cells of a matrix of the requested size, as <<x, y>> from 1
Cells == (1..size[1]) \X (1..size[2])

\* C14 (transposed sampling, order kept): for a size within 1..8 other than
\* (8, 8) the matrix has h rows of w entries, and cell [y][x] is below cell
\* [y2][x2] exactly when big_matrix[x][y] is below big_matrix[x2][y2].
C14_TransposedOrderKept ==
    (pc = "done" /\ size[1] <= 8 /\ size[2] <= 8 /\ size # <<8, 8>>) =>
        /\ Len(matrix) = size[2]
        /\ \A y \in 1..size[2] : Len(matrix[y]) = size[1]
        /\ \A c, d \in Cells :
              (matrix[c[2]][c[1]] < matrix[d[2]][d[1]])
                  <=> (big_matrix[c[1]][c[2]] < big_matrix[d[1]][d[2]])

\* a request that is not square has returned a matrix where two cells are
\* ordered the other way round in the rows-for-columns reading
C14_Witness ==
    /\ pc = "done"
    /\ size[1] < size[2] /\ size[2] <= 8 /\ size[1] >= 2
    /\ Len(matrix) = size[2]
    /\ \E c, d \in Cells :
          /\ matrix[c[2]][c[1]] < matrix[d[2]][d[1]]
          /\ big_matrix[c[2]][c[1]] > big_matrix[d[2]][d[1]]

\* the defaults the documentation gives
DocumentedDefaults ==
    [ditheringType |-> "errorDiffusion",
     errorDiffusionMatrix |-> "floydSteinberg",
     orderedDitheringMatrix |-> <<4, 4>>,
     randomDitheringType |-> "blackAndWhite",
     palette |-> [str |-> "default"]]

\* what the caller gave
Supplied == IF options.isNone THEN EmptyDict ELSE options.dict

\* the caller's options with every missing documented key spelled out
SpelledOut == [isNone |-> FALSE, dict |-> Supplied @@ DocumentedDefaults]

\* C15 (defaults merge): every documented key the caller did not give (all of
\* them for None and for {}) has its documented default, a key the caller
\* gave has the caller's value, and the call returns what it returns when the
\* missing keys are spelled out.
C15_MissingKeysTakeDefaults ==
    /\ (pc \in {"loop", "done"} /\ ~source_image.isNone) =>
          \A k \in DOMAIN DocumentedDefaults :
              opts[k] = IF k \in DOMAIN Supplied THEN Supplied[k]
                        ELSE DocumentedDefaults[k]
    /\ (Returned /\ opts["ditheringType"] # "random") =>
          result = dither_image(source_image, SpelledOut)

\* a call with options None has returned an image it changed
C15_Witness ==
    /\ Returned
    /\ options.isNone
    /\ NumPixels(source_image) >= 2
    /\ opts["ditheringType"] = "errorDiffusion"
    /\ result.data # source_image.data

\* the eight registered kernel names
RegisteredKernels ==
    {"floydSteinberg", "falseFloydSteinberg", "jarvis", "stucki", "burkes",
     "sierra3", "sierra2", "Sierra2-4A"}

\* offsets (1,0), (-1,1), (0,1), (1,1) with weights 7/16, 3/16, 5/16, 1/16
FloydSteinbergKernel ==
    << [offset |-> <<1, 0>>, factor |-> <<7, 16>>],
       [offset |-> <<-1, 1>>, factor |-> <<3, 16>>],
       [offset |-> <<0, 1>>, factor |-> <<5, 16>>],
       [offset |-> <<1, 1>>, factor |-> <<1, 16>>] >>

\* an error-diffusion pass has fetched its kernel
KernelFetched ==
    /\ pc \in {"loop", "done"}
    /\ ~source_image.isNone
    /\ opts["ditheringType"] = "errorDiffusion"
    /\ visits # << >>

\* C16 (kernel fallback): get_diffusion_map gives the Floyd-Steinberg kernel
\* for every name that is none of the eight registered ones, and the kernel
\* registered under the name for each of the eight.
C16_UnknownKernelIsFloydSteinberg ==
    KernelFetched =>
        /\ opts["errorDiffusionMatrix"] \notin RegisteredKernels =>
              diffusion_map = FloydSteinbergKernel
        /\ opts["errorDiffusionMatrix"] \in RegisteredKernels =>
              diffusion_map = DIFFUSION_MAPS[opts["errorDiffusionMatrix"]]
        /\ opts["errorDiffusionMatrix"] = "floydSteinberg" =>
              diffusion_map = FloydSteinbergKernel

\* a pass was asked for a kernel under a name that differs from a registered
\* one in case only, and has its kernel
C16_Witness ==
    /\ KernelFetched
    /\ opts["errorDiffusionMatrix"] = "sierra2-4a"
    /\ diffusion_map = FloydSteinbergKernel

Diffusing ==
    /\ pc = "loop"
    /\ ~source_image.isNone
    /\ opts["ditheringType"] = "errorDiffusion"

\* the pixel at offset current, as it is in the buffer, and its quantization
OldPixel == get_pixel_color_values(current, image_data)

NewPixel == find_closest_palette_color(OldPixel, color_palette)

\* C18 (deposits only ahead): in error-diffusion mode a step of the pass
\* changes no cell of a pixel visited before, and leaves the pixel it visits
\* at its quantized value: every deposit lands on a pixel still to be visited.
C18_DepositsOnlyAhead ==
    [][Diffusing =>
          /\ \A k \in 1..current : image_data'[k] = image_data[k]
          /\ current' # current =>
                \A c \in 1..4 : image_data'[current + c] = NewPixel[c]]_vars

\* a pass is under way in which two pixels were visited and a pixel still to
\* be visited holds error deposited on it
C18_Witness ==
    /\ Diffusing
    /\ current >= 8
    /\ \E k \in (current + 1)..Len(image_data) :
          image_data[k] # source_image.data[k] * Scale

\* the coordinates of the pixel being visited and of the target of a kernel
\* entry
CurrentX == (current \div 4) % source_image.size[1]

CurrentY == (current \div 4) \div source_image.size[1]

TargetX(entry) == CurrentX + entry.offset[1]

TargetY(entry) == CurrentY + entry.offset[2]

InImage(entry) ==
    /\ 0 <= TargetX(entry) /\ TargetX(entry) < source_image.size[1]
    /\ 0 <= TargetY(entry) /\ TargetY(entry) < source_image.size[2]

\* the offset of the target's first cell in the buffer
TargetIndex(entry) == (TargetY(entry) * source_image.size[1] + TargetX(entry)) * 4

\* the kernel of the pass
Kernel == get_diffusion_map(opts["errorDiffusionMatrix"])

\* min(255, max(0, v))
Clamped(v) == Min(255 * Scale, Max(0, v))

\* every cell of the buffer lies in [0, 255]
CellsInRange ==
    \A k \in 1..Len(image_data) : 0 <= image_data[k] /\ image_data[k] <= 255 * Scale

\* a step of the pass leaves on every target in the image
\* min(255, max(0, cur + (old - new) * weight)), channel by channel
DepositsClamped ==
    (Diffusing /\ current' # current) =>
        \A e \in 1..Len(Kernel) :
            InImage(Kernel[e]) =>
                \A c \in 1..4 :
                    image_data'[TargetIndex(Kernel[e]) + c] =
                        Clamped(image_data[TargetIndex(Kernel[e]) + c]
                                + ((OldPixel[c] - NewPixel[c]) * Kernel[e].factor[1])
                                  \div Kernel[e].factor[2])

\* C19 (clamp on write): in every state of the pass every cell of the buffer
\* lies in [0, 255], and an error deposit sets each channel of its target to
\* min(255, max(0, cur + (old - new) * weight)) with cur the target's value in
\* the buffer at that moment.
C19_ClampOnWrite == []CellsInRange /\ [][DepositsClamped]_vars

\* a pass is under way in which the first pixel was raised to 255 and the
\* error, below zero, was deposited on a cell at 0, which is still 0
C19_Witness ==
    /\ Diffusing
    /\ current = 4
    /\ source_image.size[1] >= 2
    /\ image_data[1] > source_image.data[1] * Scale
    /\ source_image.data[5] = 0
    /\ image_data[5] = 0

\* cell k belongs to the pixel being visited or to a target inside the image
MayBeWritten(k) ==
    \/ k \in (current + 1)..(current + 4)
    \/ \E e \in 1..Len(Kernel) :
          /\ InImage(Kernel[e])
          /\ k \in (TargetIndex(Kernel[e]) + 1)..(TargetIndex(Kernel[e]) + 4)

\* C20 (boundary policy): a step of the error-diffusion pass at (x, y) writes
\* only the cells of (x, y) and of the (x + dx, y + dy) inside the image; an
\* entry whose target is outside is dropped, nothing wraps into another row,
\* and every other cell is as it was.
C20_OutsideTargetsDropped ==
    [][(Diffusing /\ current' # current) =>
          \A k \in 1..Len(image_data) :
              ~MayBeWritten(k) => image_data'[k] = image_data[k]]_vars

\* in a 2x2 image the pixel in the last column of the first row was visited
\* with a kernel that has no entry towards (0, 1): the pixel below it holds
\* its error and (0, 1) is as it came
C20_Witness ==
    /\ pc = "loop"
    /\ ~source_image.isNone
    /\ opts["ditheringType"] = "errorDiffusion"
    /\ opts["errorDiffusionMatrix"] = "falseFloydSteinberg"
    /\ source_image.size = <<2, 2>>
    /\ current = 8
    /\ \A k \in 9..12 : image_data[k] = source_image.data[k] * Scale
    /\ \E k \in 13..16 : image_data[k] # source_image.data[k] * Scale

\* the pixels visited so far are 0, 1, 2, ... in this order, as many as the
\* loop variable says, all width*height of them at the return; pixel i is at
\* x = i mod width, y = i div width
VisitedInRasterOrder ==
    ~source_image.isNone =>
        /\ \A i \in 1..Len(visits) :
              /\ visits[i] = i - 1
              /\ pixel_xy(visits[i], source_image.size[1])[2] * source_image.size[1]
                 + pixel_xy(visits[i], source_image.size[1])[1] = visits[i]
              /\ pixel_xy(visits[i], source_image.size[1])[1] < source_image.size[1]
        /\ pc = "loop" => Len(visits) = current \div 4
        /\ Len(visits) <= NumPixels(source_image)
        /\ pc = "done" => Len(visits) = NumPixels(source_image)

\* C21 (raster order and termination): the pass visits every pixel once, in
\* increasing row-major order, and every call returns, after exactly
\* width*height pixel steps.
C21_EveryPixelOnceThenReturn == []VisitedInRasterOrder /\ <>(pc = "done")

\* a call on an image of two rows and two columns has returned after its four
\* pixel steps
C21_Witness ==
    /\ Returned
    /\ source_image.size = <<2, 2>>
    /\ visits = <<0, 1, 2, 3>>

\* what the call in progress returns for another image of the same options:
\* the options fix the palette and the threshold map, which are those of the
\* state
SameCallOn(img) ==
    fromarray(to_uint8(raster_pass(to_float_array(img), 0, opts, color_palette,
                                   threshold_map, img.size[1], img.size[2])),
              img.size[2], img.size[1])

\* the image with every pixel but p set to colour c
OthersSetTo(img, p, c) ==
    [img EXCEPT !.data = [k \in 1..Len(img.data) |->
                             IF ((k - 1) \div 4) + 1 = p THEN img.data[k]
                             ELSE c[((k - 1) % 4) + 1]]]

\* a step of the pass in one of the modes that look at one pixel
Pointwise ==
    /\ pc = "loop"
    /\ ~source_image.isNone
    /\ opts["ditheringType"] \in {"quantizationOnly", "ordered", "random"}

\* for quantizationOnly and ordered, pixel p of the result is pixel p of the
\* result for the image whose other pixels are all opaque black: two images
\* of one shape that agree on pixel p agree on pixel p of their results
OwnInputOnly ==
    (Returned /\ opts["ditheringType"] \in {"quantizationOnly", "ordered"}) =>
        \A p \in 1..NumPixels(source_image) :
            LET other == SameCallOn(OthersSetTo(source_image, p, <<0, 0, 0, 255>>))
            IN /\ PixelRGB(result, p) = PixelRGB(other, p)
               /\ PixelAlpha(result, p) = PixelAlpha(other, p)

\* C22 (no cross-pixel dependency): in quantizationOnly, ordered and random
\* mode a step of the pass changes only the four cells of the pixel it visits,
\* and for quantizationOnly and ordered pixel i of the result depends on no
\* input pixel but pixel i (and its place in the image).
C22_NoCrossPixelDependency ==
    /\ []OwnInputOnly
    /\ [][(Pointwise /\ current' # current) =>
             \A k \in 1..Len(image_data) :
                 k \notin (current + 1)..(current + 4) =>
                     image_data'[k] = image_data[k]]_vars

\* an ordered pass over a 2x2 image of three colours has returned, and its
\* second pixel is not what the first became
C22_Witness ==
    /\ Returned
    /\ opts["ditheringType"] = "ordered"
    /\ source_image.size = <<2, 2>>
    /\ PixelRGB(source_image, 1) # PixelRGB(source_image, 2)
    /\ PixelRGB(source_image, 3) # PixelRGB(source_image, 4)
    /\ PixelRGB(result, 1) # PixelRGB(result, 2)

\* the RGBA of input pixel p
InputPixel(p) == [i \in 1..4 |-> source_image.data[4 * (p - 1) + i]]

\* the RGBA of pixel p of the result
OutputPixel(p) == [i \in 1..4 |-> result.data[4 * (p - 1) + i]]

\* column and row of pixel p (from 1) of the image
ColumnOf(p) == (p - 1) % source_image.size[1]

RowOf(p) == (p - 1) \div source_image.size[1]

\* pixels of one input colour at places that agree modulo the size of the
\* threshold matrix have one output colour
TiledByModulo ==
    (Returned /\ opts["ditheringType"] = "ordered") =>
        \A p, q \in 1..NumPixels(source_image) :
            ( /\ InputPixel(p) = InputPixel(q)
              /\ ColumnOf(p) % Len(threshold_map[1]) = ColumnOf(q) % Len(threshold_map[1])
              /\ RowOf(p) % Len(threshold_map) = RowOf(q) % Len(threshold_map) )
            => OutputPixel(p) = OutputPixel(q)

\* 64 * M[y mod mapHeight][x mod mapWidth] / (mapHeight * mapWidth) for the
\* pixel being visited, in units of 1/Scale
Perturbation ==
    LET mapHeight == Len(threshold_map)
        mapWidth == Len(threshold_map[1])
        m == threshold_map[(CurrentY % mapHeight) + 1][(CurrentX % mapWidth) + 1]
    IN ((64 * m) \div (mapHeight * mapWidth)) * Scale
       + (((64 * m) % (mapHeight * mapWidth)) * Scale) \div (mapHeight * mapWidth)

\* a step of the ordered pass leaves at the pixel it visits the palette match
\* of the pixel with the perturbation added to every channel
PerturbedThenMatched ==
    (pc = "loop" /\ ~source_image.isNone /\ opts["ditheringType"] = "ordered"
       /\ current' # current) =>
        get_pixel_color_values(current, image_data')
            = find_closest_palette_color([i \in 1..4 |-> OldPixel[i] + Perturbation],
                                         color_palette)

\* C23 (ordered tiling): the ordered pass adds
\* 64 * M[y mod mapHeight][x mod mapWidth] / (mapHeight * mapWidth) to every
\* channel of the pixel at (x, y) and writes the palette match of the sum, so
\* pixels of one input colour at places that agree modulo (mapWidth,
\* mapHeight) get one output colour.
C23_OrderedTilesByModulo == []TiledByModulo /\ [][PerturbedThenMatched]_vars

\* a row of four mid-grey pixels went through a 2x2 matrix: the third pixel
\* came out as the first, the second did not
C23_Witness ==
    /\ Returned
    /\ opts["ditheringType"] = "ordered"
    /\ opts["orderedDitheringMatrix"] = <<2, 2>>
    /\ source_image.size = <<4, 1>>
    /\ \A p \in 1..4 : InputPixel(p) = <<128, 128, 128, 255>>
    /\ OutputPixel(3) = OutputPixel(1)
    /\ OutputPixel(2) # OutputPixel(1)

\* the pass for an explicitly empty ditheringType
EmptyType == ~source_image.isNone /\ opts["ditheringType"] \in {"", PyNone}

\* every pixel of the result is the palette match of the input pixel
AllMatched ==
    (Returned /\ EmptyType) =>
        \A p \in 1..NumPixels(source_image) :
            [i \in 1..4 |-> OutputPixel(p)[i] * Scale]
                = find_closest_palette_color([i \in 1..4 |-> InputPixel(p)[i] * Scale],
                                             color_palette)

\* a step writes the match at the pixel it visits and nothing else
MatchedInPlace ==
    (pc = "loop" /\ EmptyType /\ current' # current) =>
        /\ get_pixel_color_values(current, image_data') = NewPixel
        /\ \A k \in 1..Len(image_data) :
              k \notin (current + 1)..(current + 4) => image_data'[k] = image_data[k]

\* C24 (empty ditheringType): with ditheringType "" or None dither_image is
\* quantizationOnly: every output pixel is find_closest_palette_color of the
\* input pixel, and a step of the pass changes no other pixel.
C24_EmptyTypeQuantizes == []AllMatched /\ [][MatchedInPlace]_vars

\* a call with ditheringType "" on two pixels that are not palette colours has
\* returned, and both pixels changed
C24_Witness ==
    /\ Returned
    /\ opts["ditheringType"] = ""
    /\ NumPixels(source_image) = 2
    /\ \A p \in 1..2 : PixelRGB(result, p) # PixelRGB(source_image, p)

\* a step of the pass in random rgb mode
RandomRgb ==
    /\ pc = "loop"
    /\ opts["ditheringType"] = "random"
    /\ opts["randomDitheringType"] = "rgb"

\* the palettes as set_color_palette gives them
PaletteArrays == { set_color_palette(p) : p \in RandomPalettes }

\* C25 (random rgb): a step in random rgb mode leaves at the pixel it visits,
\* per colour channel, 0 when the channel was below its draw and 255
\* otherwise, and the alpha the pixel had; the step gives the same for every
\* palette.
C25_RandomRgbPerChannel ==
    [][(RandomRgb /\ current' # current) =>
          /\ Len(drawn') = 3
          /\ \A c \in 1..3 :
                get_pixel_color_values(current, image_data')[c]
                    = IF OldPixel[c] < drawn'[c] * Scale THEN 0 ELSE 255 * Scale
          /\ get_pixel_color_values(current, image_data')[4] = OldPixel[4]
          /\ \A pal \in PaletteArrays :
                image_data' = loop_body(image_data, current, opts, pal, threshold_map,
                                        source_image.size[1], source_image.size[2],
                                        drawn')]_vars

\* the first pixel (127,128,129,50) met the draws (128,128,255): the channel
\* equal to its draw and the one below 255 against 255 went different ways,
\* and the alpha stayed 50
C25_Witness ==
    /\ RandomRgb
    /\ current = 4
    /\ drawn = <<128, 128, 255>>
    /\ PixelRGB(source_image, 1) = <<127, 128, 129>>
    /\ get_pixel_color_values(0, image_data) = <<0, 255 * Scale, 0, 50 * Scale>>

\* a pass in random blackAndWhite mode
RandomBw ==
    /\ ~source_image.isNone
    /\ opts["ditheringType"] = "random"
    /\ opts["randomDitheringType"] = "blackAndWhite"

\* a step makes one draw and leaves black where the mean of R, G, B was below
\* it, white otherwise
OneDrawBlackOrWhite ==
    (pc = "loop" /\ RandomBw /\ current' # current) =>
        /\ Len(drawn') = 1
        /\ get_pixel_color_values(current, image_data')
             = IF OldPixel[1] + OldPixel[2] + OldPixel[3] < 3 * drawn'[1] * Scale
               THEN << 0, 0, 0, 255 * Scale >>
               ELSE << 255 * Scale, 255 * Scale, 255 * Scale, 255 * Scale >>

\* the returned pixels are opaque black or opaque white, and white where the
\* input was pure white
BlackOrWhiteReturned ==
    (Returned /\ RandomBw) =>
        \A p \in 1..NumPixels(source_image) :
            /\ OutputPixel(p) \in { <<0, 0, 0, 255>>, <<255, 255, 255, 255>> }
            /\ PixelRGB(source_image, p) = <<255, 255, 255>>
                   => OutputPixel(p) = <<255, 255, 255, 255>>

\* C26 (random blackAndWhite): a step in random blackAndWhite mode makes one
\* draw and leaves (0,0,0,255) at the pixel it visits when (R+G+B)/3 is below
\* the draw and (255,255,255,255) otherwise, whatever the alpha was; a pure
\* white pixel comes out white.
C26_RandomBlackAndWhite == []BlackOrWhiteReturned /\ [][OneDrawBlackOrWhite]_vars

\* the first pixel (127,128,129,50), of mean 128, met the draw 128 and is
\* opaque white
C26_Witness ==
    /\ pc = "loop"
    /\ RandomBw
    /\ current = 4
    /\ drawn = <<128>>
    /\ InputPixel(1) = <<127, 128, 129, 50>>
    /\ get_pixel_color_values(0, image_data)
         = << 255 * Scale, 255 * Scale, 255 * Scale, 255 * Scale >>

\* an error-diffusion call on an image of one pixel
SinglePixelDiffusion ==
    /\ ~source_image.isNone
    /\ source_image.size = <<1, 1>>
    /\ opts["ditheringType"] = "errorDiffusion"

\* what the call returned is what it returns for quantizationOnly, and white
\* for mid grey against the default palette
AsQuantizationOnly ==
    (Returned /\ SinglePixelDiffusion) =>
        /\ result = dither_image(source_image, WithType(options, "quantizationOnly"))
        /\ ( /\ opts["palette"] = [str |-> "default"]
             /\ InputPixel(1) = <<128, 128, 128, 255>> )
           => OutputPixel(1) = <<255, 255, 255, 255>>

\* the step has no target inside the image and leaves the quantized pixel
NothingDeposited ==
    (pc = "loop" /\ SinglePixelDiffusion /\ current' # current) =>
        /\ \A e \in 1..Len(Kernel) : ~InImage(Kernel[e])
        /\ image_data' = set_pixel(image_data, 0, NewPixel)

\* C27 (single pixel): error diffusion on a 1x1 image, with any kernel, finds
\* every target outside the image, deposits nothing and returns what
\* quantizationOnly returns; (128,128,128,255) against the default palette
\* becomes (255,255,255,255).
C27_SinglePixelNoDiffusion == []AsQuantizationOnly /\ [][NothingDeposited]_vars

\* the Jarvis kernel was fetched for one mid-grey pixel and the default
\* palette, and the call returned white
C27_Witness ==
    /\ Returned
    /\ SinglePixelDiffusion
    /\ opts["errorDiffusionMatrix"] = "jarvis"
    /\ opts["palette"] = [str |-> "default"]
    /\ InputPixel(1) = <<128, 128, 128, 255>>
    /\ OutputPixel(1) = <<255, 255, 255, 255>>

\* the sum of the numerators of the first n weights of a kernel
RECURSIVE WeightSum(_, _)
WeightSum(kernel, n) ==
    IF n = 0 THEN 0 ELSE WeightSum(kernel, n - 1) + kernel[n].factor[1]

\* the kernel the pass fetched has positive weights, all over one denominator,
\* that sum to between 3/4 and 1, and the Jarvis kernel to 47/48
WeightsBounded ==
    KernelFetched =>
        LET denominator == diffusion_map[1].factor[2]
            total == WeightSum(diffusion_map, Len(diffusion_map))
        IN /\ denominator > 0
           /\ \A e \in 1..Len(diffusion_map) :
                 /\ diffusion_map[e].factor[1] > 0
                 /\ diffusion_map[e].factor[2] = denominator
           /\ 4 * total >= 3 * denominator
           /\ total <= denominator
           /\ opts["errorDiffusionMatrix"] = "jarvis" => 48 * total = 47 * denominator

\* what a step added on channel c to the pixels 1..q other than the one it
\* visits
RECURSIVE Deposited(_, _)
Deposited(c, q) ==
    IF q = 0 THEN 0
    ELSE Deposited(c, q - 1)
         + (IF 4 * (q - 1) = current THEN 0
            ELSE image_data'[4 * (q - 1) + c] - image_data[4 * (q - 1) + c])

\* per channel, the deposits of a step add up to no more than the error of
\* the pixel, up to one unit of rounding per kernel entry
DepositWithinError ==
    (Diffusing /\ current' # current) =>
        \A c \in 1..4 :
            Abs(Deposited(c, NumPixels(source_image)))
                <= Abs(OldPixel[c] - NewPixel[c]) + Len(Kernel)

\* C28 (kernel weights): every kernel has positive weights whose sum is
\* between 3/4 and 1, 47/48 for Jarvis, and what one step of the pass deposits
\* on a channel does not exceed the quantization error of the pixel on that
\* channel.
C28_KernelWeightsBounded == []WeightsBounded /\ [][DepositWithinError]_vars

\* the Jarvis kernel was fetched for a 2x2 image whose first pixel, mid grey,
\* became white, and the other three pixels lost something to it
C28_Witness ==
    /\ Diffusing
    /\ opts["errorDiffusionMatrix"] = "jarvis"
    /\ diffusion_map = jarvis
    /\ source_image.size = <<2, 2>>
    /\ current = 4
    /\ InputPixel(1) = <<128, 128, 128, 255>>
    /\ image_data[1] = 255 * Scale
    /\ \A q \in 2..4 : InputPixel(q)[1] > 0 => image_data[4 * (q - 1) + 1] < InputPixel(q)[1] * Scale
    /\ \E q \in 2..4 : InputPixel(q)[1] > 0

\* the image with the alpha of every pixel set to a
WithAlpha(img, a) ==
    [img EXCEPT !.data = [k \in 1..Len(img.data) |->
                             IF k % 4 = 0 THEN a ELSE img.data[k]]]

\* C29 (alpha non-interference): for quantizationOnly, ordered and
\* errorDiffusion the RGB of every returned pixel is the RGB the call returns
\* for the same image with every alpha 255, and with every alpha 0: images
\* that agree on RGB get results that agree on RGB.
C29_AlphaNonInterference ==
    [](Returned /\ opts["ditheringType"] \in Quantizing =>
          \A a \in {0, 255} :
              LET other == SameCallOn(WithAlpha(source_image, a))
              IN \A p \in 1..NumPixels(source_image) :
                    PixelRGB(result, p) = PixelRGB(other, p))

\* an error-diffusion call on a translucent white pixel followed by mid grey
\* has returned; white is no gameboy colour, so both its colour error and its
\* alpha error went to the second pixel
C29_Witness ==
    /\ Returned
    /\ opts["ditheringType"] = "errorDiffusion"
    /\ opts["palette"] = [str |-> "gameboy"]
    /\ source_image.size = <<2, 1>>
    /\ InputPixel(1) = <<255, 255, 255, 100>>
    /\ InputPixel(2) = <<128, 128, 128, 255>>
    /\ PixelAlpha(result, 1) = 255
    /\ PixelRGB(result, 1) # <<255, 255, 255>>

\* the pixel (from 1) the replace_colors loop is at
AtPixel == (r_i \div 4) + 1

\* the RGB of pixel p of the working copy
CopyRGB(data, p) == << data[4 * (p - 1) + 1], data[4 * (p - 1) + 2], data[4 * (p - 1) + 3] >>

\* in the loop, the pixels not yet visited are as they are in the source
AheadUntouched ==
    pc = "loop" =>
        \A p \in AtPixel..NumPixels(r_image) : CopyRGB(r_data, p) = PixelRGB(r_image, p)

\* a step gives the pixel it visits the replacement of the first original
\* colour its source RGB matches, or leaves it, and touches no other pixel
SubstitutedOnce ==
    (pc = "loop" /\ r_i' # r_i) =>
        /\ \A i \in 1..Len(original_colors) :
              FirstMatchIs(AtPixel, i) =>
                  CopyRGB(r_data', AtPixel) = hex_to_rgb(replace_colors_list[i])
        /\ Unmatched(AtPixel) => CopyRGB(r_data', AtPixel) = PixelRGB(r_image, AtPixel)
        /\ \A k \in 1..Len(r_data) :
              k \notin (r_i + 1)..(r_i + 3) => r_data'[k] = r_data[k]

\* with original [A, B] and replacement [B, A] the returned image has B where
\* the source had A and A where it had B
Swapped ==
    ( /\ pc = "done"
      /\ Len(original_colors) = 2 /\ Len(replace_colors_list) = 2
      /\ hex_to_rgb(replace_colors_list[1]) = hex_to_rgb(original_colors[2])
      /\ hex_to_rgb(replace_colors_list[2]) = hex_to_rgb(original_colors[1]) ) =>
        /\ ~r_result.isNone
        /\ \A p \in 1..NumPixels(r_image) :
              /\ PixelRGB(r_image, p) = hex_to_rgb(original_colors[1])
                    => PixelRGB(r_result, p) = hex_to_rgb(original_colors[2])
              /\ PixelRGB(r_image, p) = hex_to_rgb(original_colors[2])
                    => PixelRGB(r_result, p) = hex_to_rgb(original_colors[1])

\* C30 (single substitution): replace_colors matches each pixel by its RGB in
\* the source, the first matching original colour deciding, and replaces it
\* once; a colour it wrote is not matched again, so original [A, B] with
\* replacement [B, A] exchanges the two colours.
C30_SingleSubstitution == []AheadUntouched /\ []Swapped /\ [][SubstitutedOnce]_vars

\* black and white were exchanged in an image that has both
C30_Witness ==
    /\ pc = "done"
    /\ original_colors = <<HexBlack, HexWhite>>
    /\ replace_colors_list = <<HexWhite, HexBlack>>
    /\ ~r_result.isNone
    /\ \E p, q \in 1..NumPixels(r_image) :
          /\ PixelRGB(r_image, p) = <<0, 0, 0>> /\ PixelRGB(r_result, p) = <<255, 255, 255>>
          /\ PixelRGB(r_image, q) = <<255, 255, 255>> /\ PixelRGB(r_result, q) = <<0, 0, 0>>

====
